---- MODULE Spec2Model ----
(***************************************************************************)
(* Chunking -> section detection -> indexing -> evaluation pipeline of the *)
(* AI business analyst assistant (src/AI), and the per-session index       *)
(* coordinator (src/AI/memory/session.py).                                 *)
(*                                                                         *)
(* Text is a sequence of one-character strings.  A cosine score is kept as *)
(* its exact square, a reduced fraction [num, den]: scores are never       *)
(* negative, so comparing squares compares scores (exact arithmetic; the   *)
(* rounding of the floating point build is not modelled).                  *)
(***************************************************************************)
EXTENDS Integers, Sequences, FiniteSets, TLC

\* ------------------------------------------------------------------ text

Max(a, b) == IF a >= b THEN a ELSE b

Min(a, b) == IF a <= b THEN a ELSE b

UpperSeq == << "A", "B", "C", "D", "E", "F", "G", "H", "I", "J", "K", "L", "M",
               "N", "O", "P", "Q", "R", "S", "T", "U", "V", "W", "X", "Y", "Z" >>

LowerSeq == << "a", "b", "c", "d", "e", "f", "g", "h", "i", "j", "k", "l", "m",
               "n", "o", "p", "q", "r", "s", "t", "u", "v", "w", "x", "y", "z" >>

UpperAlpha == { UpperSeq[i] : i \in 1..26 }

LowerAlpha == { LowerSeq[i] : i \in 1..26 }

Digit == { "0", "1", "2", "3", "4", "5", "6", "7", "8", "9" }

\* The characters str.strip(), str.split() and the regex class \s remove.
Whitespace == { " ", "\t", "\n" }

\* The letters of the Roman pattern, matched with re.IGNORECASE.
RomanLetter == { "I", "V", "X", "L", "C", "D", "M", "i", "v", "x", "l", "c", "d", "m" }

\* [\.)-] : the optional punctuation after a heading identifier.
IdPunct == { ".", ")", "-" }

\* The markers of _BULLET_PATTERN in the model's alphabet.
Bullet == { "-", "*" }

IsSpace(c) == c \in Whitespace

\* The regex class [\w'] of the tokenizer.
IsWordChar(c) == c \in UpperAlpha \cup LowerAlpha \cup Digit \cup { "_", "'" }

UpperToLower == [ c \in UpperAlpha |-> LowerSeq[CHOOSE i \in 1..26 : UpperSeq[i] = c] ]

LowerToUpper == [ c \in LowerAlpha |-> UpperSeq[CHOOSE i \in 1..26 : LowerSeq[i] = c] ]

LowerChar(c) == IF c \in UpperAlpha THEN UpperToLower[c] ELSE c

UpperChar(c) == IF c \in LowerAlpha THEN LowerToUpper[c] ELSE c

\* str.lower()
Lower(s) == << >> \o [ i \in 1..Len(s) |-> LowerChar(s[i]) ]

\* str.upper()
Upper(s) == << >> \o [ i \in 1..Len(s) |-> UpperChar(s[i]) ]

\* s[a:b], with Python's treatment of negative and out-of-range bounds.
PySlice(s, a, b) ==
    LET n  == Len(s)
        lo == IF a < 0 THEN Max(a + n, 0) ELSE Min(a, n)
        hi == IF b < 0 THEN Max(b + n, 0) ELSE Min(b, n)
    IN  IF lo >= hi THEN << >> ELSE SubSeq(s, lo + 1, hi)

\* str.strip()
Strip(s) ==
    IF \A i \in 1..Len(s) : IsSpace(s[i]) THEN << >>
    ELSE LET first == CHOOSE i \in 1..Len(s) :
                         /\ ~IsSpace(s[i])
                         /\ \A j \in 1..(i - 1) : IsSpace(s[j])
             last  == CHOOSE i \in 1..Len(s) :
                         /\ ~IsSpace(s[i])
                         /\ \A j \in (i + 1)..Len(s) : IsSpace(s[j])
         IN  SubSeq(s, first, last)

\* str.splitlines(), for the line boundary "\n".
RECURSIVE SplitLines(_)
SplitLines(s) ==
    IF Len(s) = 0 THEN << >>
    ELSE IF \A i \in 1..Len(s) : s[i] # "\n" THEN << s >>
    ELSE LET p == CHOOSE i \in 1..Len(s) :
                     /\ s[i] = "\n"
                     /\ \A j \in 1..(i - 1) : s[j] # "\n"
         IN  << SubSeq(s, 1, p - 1) >> \o SplitLines(SubSeq(s, p + 1, Len(s)))

\* sep.join(parts)
RECURSIVE Join(_, _)
Join(parts, sep) ==
    IF Len(parts) = 0 THEN << >>
    ELSE IF Len(parts) = 1 THEN parts[1]
    ELSE parts[1] \o sep \o Join(Tail(parts), sep)

NL == << "\n" >>

\* needle in hay
Contains(hay, needle) ==
    \E i \in 0..(Len(hay) - Len(needle)) :
        \A j \in 1..Len(needle) : hay[i + j] = needle[j]

\* [f(x) for x in s]
MapSeq(s, F(_)) == [ i \in 1..Len(s) |-> F(s[i]) ]

\* [x for x in s if P(x)]
FilterSeq(s, P(_)) == SelectSeq(s, P)

NonEmpty(s) == Len(s) > 0

\* The least element of a set of positions, 0 when the set is empty.
First(S) == IF S = {} THEN 0 ELSE CHOOSE i \in S : \A j \in S : i <= j

\* --------------------------------------------------- chunking/sections.py

\* The last index of the maximal run of characters of S that starts at i
\* (i - 1 when s[i] is not in S).
RunEnd(s, i, S) ==
    IF i > Len(s) \/ s[i] \notin S THEN i - 1
    ELSE CHOOSE j \in i..Len(s) :
            /\ (j = Len(s) \/ s[j + 1] \notin S)
            /\ \A m \in i..j : s[m] \in S

\* The characters of s that are not whitespace.
NonSpace(s) == { s[i] : i \in 1..Len(s) } \ Whitespace

\* str.split(): the maximal runs of non-whitespace characters.  t is
\* stripped; its first word ends at e.
RECURSIVE SplitStripped(_)

SplitAt(t, e) == << SubSeq(t, 1, e) >> \o SplitStripped(Strip(SubSeq(t, e + 1, Len(t))))

SplitStripped(t) ==
    IF Len(t) = 0 THEN << >> ELSE SplitAt(t, RunEnd(t, 1, NonSpace(t)))

SplitWords(s) == SplitStripped(Strip(s))

\* str.split(sep) for a one-character separator.
RECURSIVE SplitOn(_, _)
SplitOn(s, sep) ==
    IF \A i \in 1..Len(s) : s[i] # sep THEN << s >>
    ELSE LET p == CHOOSE i \in 1..Len(s) :
                     /\ s[i] = sep
                     /\ \A j \in 1..(i - 1) : s[j] # sep
         IN  << SubSeq(s, 1, p - 1) >> \o SplitOn(SubSeq(s, p + 1, Len(s)), sep)

\* s.replace(ch, "")
Remove(s, ch) == SelectSeq(s, LAMBDA c : c # ch)

IsDigits(s) == Len(s) > 0 /\ \A i \in 1..Len(s) : s[i] \in Digit

\* re.fullmatch(r"[IVXLCDM]+", s, re.IGNORECASE)
IsRoman(s) == Len(s) > 0 /\ \A i \in 1..Len(s) : s[i] \in RomanLetter

IsSingleAlpha(s) == Len(s) = 1 /\ s[1] \in UpperAlpha \cup LowerAlpha

InSeq(x, s) == \E i \in 1..Len(s) : s[i] = x

\* A missing identifier (None) is the empty text: the code tests identifiers
\* by truth value only, and no pattern captures an empty identifier.
NoIdentifier == << >>

NoMatch == [ matched |-> FALSE ]

_normalise_title(title) == Strip(Join(SplitWords(title), << " " >>))

NormalisedStripped(stripped) ==
    IF Len(stripped) = 0 THEN NoIdentifier
    ELSE IF IsSingleAlpha(stripped) \/ IsRoman(stripped) THEN Upper(stripped)
    ELSE stripped

_normalise_identifier(identifier) ==
    IF Len(identifier) = 0 THEN NoIdentifier ELSE NormalisedStripped(Strip(identifier))

\* `tokens` of _derive_path after the branches on the identifier, from the
\* identifier without its blanks.
IdentifierTokens(identifier, collapsed) ==
    IF Len(identifier) = 0 THEN << >>
    ELSE IF IsDigits(Remove(collapsed, "."))
         THEN SelectSeq(SplitOn(collapsed, "."), NonEmpty)
    ELSE IF IsRoman(collapsed) THEN << Upper(collapsed) >>
    ELSE IF IsSingleAlpha(collapsed) THEN << Upper(collapsed) >>
    ELSE << collapsed >>

\* The end of _derive_path: the cleaned title is appended when it is new.
PathOf(tokens, cleaned) ==
    IF Len(cleaned) > 0 /\ ~InSeq(cleaned, tokens) THEN Append(tokens, cleaned)
    ELSE IF Len(tokens) > 0 THEN tokens
    ELSE IF Len(cleaned) > 0 THEN << cleaned >> ELSE << >>

_derive_path(identifier, title) ==
    PathOf(IdentifierTokens(identifier, Remove(identifier, " ")), _normalise_title(title))

\* The end of the identifier of _NUMERIC_PATTERN, \d+(?:\.\d+)*, whose first
\* run of digits ends at k.
RECURSIVE NumericIdEnd(_, _)
NumericIdEnd(s, k) ==
    IF k + 2 <= Len(s) /\ s[k + 1] = "." /\ s[k + 2] \in Digit
    THEN NumericIdEnd(s, RunEnd(s, k + 2, Digit))
    ELSE k

\* The tail (?:[\.)-])?\s+(?P<title>.+) of the identifier patterns, after an
\* identifier that ends at k; punct says whether the pattern has the
\* optional punctuation (the bullet pattern has none).  The title runs to
\* the end of its line: "." matches no line break.
TitleAfter(s, k, punct) ==
    LET p == IF punct /\ k + 1 <= Len(s) /\ s[k + 1] \in IdPunct THEN k + 2 ELSE k + 1
        q == RunEnd(s, p, Whitespace) + 1
        e == IF \A i \in q..Len(s) : s[i] # "\n" THEN Len(s)
             ELSE (CHOOSE i \in q..Len(s) :
                      /\ s[i] = "\n"
                      /\ \A j \in q..(i - 1) : s[j] # "\n") - 1
    IN  IF p <= Len(s) /\ IsSpace(s[p]) /\ q <= Len(s)
        THEN [ matched |-> TRUE, title |-> SubSeq(s, q, e) ]
        ELSE NoMatch

\* One pattern of _HEADING_PATTERNS tried on the stripped line: the groups
\* identifier and title of the match, or NoMatch.
HeadingPatterns == << "numeric", "roman", "upper_alpha", "lower_alpha", "uppercase_words", "bullet" >>

\* Where the identifier group of a pattern ends on the stripped line (0 when
\* the line does not start with one).
IdentifierEnd(pattern, s) ==
    CASE pattern = "numeric"     -> IF s[1] \in Digit
                                     THEN NumericIdEnd(s, RunEnd(s, 1, Digit))
                                     ELSE 0
      [] pattern = "roman"       -> RunEnd(s, 1, RomanLetter)
      [] pattern = "upper_alpha" -> IF s[1] \in UpperAlpha THEN 1 ELSE 0
      [] pattern = "lower_alpha" -> IF s[1] \in LowerAlpha THEN 1 ELSE 0
      [] pattern = "bullet"      -> IF s[1] \in Bullet THEN 1 ELSE 0
      [] OTHER                   -> 0

\* The groups of an identifier pattern whose identifier ends at idEnd and
\* whose tail matched as t.
IdentifierMatch(pattern, s, idEnd, t) ==
    IF idEnd < 1 \/ ~t.matched THEN NoMatch
    ELSE [ matched    |-> TRUE,
           identifier |-> IF pattern = "bullet" THEN NoIdentifier
                          ELSE SubSeq(s, 1, idEnd),
           title      |-> t.title ]

TailAfter(pattern, s, idEnd) ==
    IF idEnd < 1 THEN NoMatch ELSE TitleAfter(s, idEnd, pattern # "bullet")

PatternMatch(pattern, s) ==
    IF pattern = "uppercase_words"
    THEN IF /\ Len(s) >= 4
            /\ s[1] \in UpperAlpha
            /\ \A i \in 2..Len(s) : s[i] \in UpperAlpha \cup Whitespace
         THEN [ matched |-> TRUE, identifier |-> NoIdentifier, title |-> s ]
         ELSE NoMatch
    ELSE IdentifierMatch(pattern, s, IdentifierEnd(pattern, s),
                         TailAfter(pattern, s, IdentifierEnd(pattern, s)))

\* The SectionHeading match_heading_line builds from the normalised groups.
SectionHeading(stripped, identifier, title) ==
    [ matched    |-> TRUE,
      heading    |-> stripped,
      identifier |-> identifier,
      title      |-> title,
      path       |-> _derive_path(identifier, title) ]

\* The body of the loop of match_heading_line for the pattern that matched
\* first, with groups m.
HeadingOfMatch(stripped, m) ==
    SectionHeading(stripped,
                   _normalise_identifier(m.identifier),
                   _normalise_title(IF Len(m.title) > 0 THEN m.title ELSE stripped))

\* The first pattern of _HEADING_PATTERNS that matches the stripped line
\* (0 when none does).
FirstPattern(stripped) ==
    First({ i \in 1..Len(HeadingPatterns) :
              PatternMatch(HeadingPatterns[i], stripped).matched })

MatchStripped(stripped, first) ==
    IF Len(stripped) = 0 \/ first = 0 THEN NoMatch
    ELSE HeadingOfMatch(stripped, PatternMatch(HeadingPatterns[first], stripped))

match_heading_line(line) == MatchStripped(Strip(line), FirstPattern(Strip(line)))

\* The stripped non-blank lines of a text.
StrippedLines(text) == SelectSeq(MapSeq(SplitLines(text), Strip), NonEmpty)

MaxHeadingLines == 4

\* The loop of detect_section_heading over lines[:max_lines]: the first
\* line that match_heading_line accepts.
FirstHeading(headings) ==
    IF First({ i \in 1..Len(headings) : headings[i].matched }) = 0 THEN NoMatch
    ELSE headings[First({ i \in 1..Len(headings) : headings[i].matched })]

HeadLines(lines) == SubSeq(lines, 1, Min(MaxHeadingLines, Len(lines)))

detect_section_heading(text) ==
    FirstHeading(MapSeq(HeadLines(StrippedLines(text)), match_heading_line))

\* ------------------------------------------------- chunking/strategies.py

_normalise_text(text) == Join(StrippedLines(text), NL)

AllInOneChunker(text) ==
    LET cleaned == Strip(text)
    IN  IF Len(cleaned) > 0 THEN << cleaned >> ELSE << >>

\* The while loop with the next window starting where the last one ended.
RECURSIVE FixedLoopNoOverlap(_, _, _, _, _)
FixedLoopNoOverlap(cleaned, size, lap, start, chunks) ==
    IF ~(start < Len(cleaned)) THEN chunks
    ELSE LET end     == start + size
             chunks2 == Append(chunks, PySlice(cleaned, start, end))
         IN  IF end >= Len(cleaned) THEN chunks2
             ELSE FixedLoopNoOverlap(cleaned, size, lap, end, chunks2)

\* The while loop of FixedSizeChunker.chunk, from window start `start` with
\* `chunks` emitted so far.
RECURSIVE FixedLoop(_, _, _, _, _)
FixedLoop(cleaned, size, lap, start, chunks) ==
    IF ~(start < Len(cleaned)) THEN chunks
    ELSE LET end     == start + size
             chunks2 == Append(chunks, PySlice(cleaned, start, end))
         IN  IF end >= Len(cleaned) THEN chunks2
             ELSE FixedLoop(cleaned, size, lap, Max(end - lap, start + 1), chunks2)

\* FixedSizeChunker(chunk_size=size, overlap=lap).chunk(text)
FixedWindows(cleaned, size, lap) ==
    IF Len(cleaned) = 0 THEN << >>
    ELSE IF Len(cleaned) <= size THEN << cleaned >>
    ELSE FixedLoop(cleaned, size, lap, 0, << >>)

FixedSizeChunker(text, size, lap) == FixedWindows(_normalise_text(text), size, lap)

\* flush() that keeps the first line of the buffer and drops the others.
FlushFirstLine(segments, buffer) ==
    IF Len(buffer) > 0 /\ Len(Strip(buffer[1])) > 0 THEN Append(segments, Strip(buffer[1]))
    ELSE segments

\* flush() of SemanticChunker.chunk: the segments after the buffer is
\* flushed (the buffer is then empty).
Flush(segments, buffer) ==
    LET combined == Strip(Join(buffer, NL))
    IN  IF Len(buffer) > 0 /\ Len(combined) > 0 THEN Append(segments, combined)
        ELSE segments

\* The first pass over cleaned_lines[i..]: [segments, buffer] at its end.
RECURSIVE SemanticPass(_, _, _, _, _)

\* The end of one iteration, once the line is in the buffer: the buffer is
\* flushed when it has reached min_chunk_size.
SemanticFill(lines, i, minsize, segments, buffer) ==
    IF Len(Join(buffer, NL)) >= minsize
    THEN SemanticPass(lines, i + 1, minsize, Flush(segments, buffer), << >>)
    ELSE SemanticPass(lines, i + 1, minsize, segments, buffer)

SemanticPass(lines, i, minsize, segments, buffer) ==
    IF i > Len(lines) THEN [ segments |-> segments, buffer |-> buffer ]
    ELSE IF Len(lines[i]) = 0
         THEN SemanticPass(lines, i + 1, minsize, segments, buffer)
    ELSE IF match_heading_line(lines[i]).matched /\ Len(buffer) > 0
         THEN SemanticFill(lines, i, minsize, Flush(segments, buffer), << lines[i] >>)
         ELSE SemanticFill(lines, i, minsize, segments, Append(buffer, lines[i]))

\* The merge pass over segments[i..].
RECURSIVE SemanticMerge(_, _, _, _)
SemanticMerge(segments, i, minsize, merged) ==
    IF i > Len(segments) THEN merged
    ELSE LET chunk == segments[i]
             n     == Len(merged)
         IN  SemanticMerge(segments, i + 1, minsize,
                 IF n > 0 /\ Len(merged[n]) + Len(chunk) < minsize
                 THEN [ merged EXCEPT ![n] = merged[n] \o NL \o chunk ]
                 ELSE Append(merged, chunk))

\* SemanticChunker(min_chunk_size=minsize).chunk(text)
SemanticSegments(text, minsize, segments) ==
    IF Len(segments) = 0
    THEN (IF Len(Strip(text)) > 0 THEN << Strip(text) >> ELSE << >>)
    ELSE SemanticMerge(segments, 1, minsize, << >>)

FlushPass(pass) == Flush(pass.segments, pass.buffer)

SemanticChunker(text, minsize) ==
    SemanticSegments(text, minsize,
        FlushPass(SemanticPass(MapSeq(SplitLines(text), Strip), 1, minsize, << >>, << >>)))

\* ----------------------------------------------------- chunking/__init__.py

\* The configuration of the registry's chunker instances (dataclass defaults).
chunk_size == 1200

overlap == 200

min_chunk_size == 400

\* _CHUNKERS.keys(), in registration order.
available_chunkers == << "all_in_one", "fixed", "semantic" >>

ChunkerKeys == { available_chunkers[i] : i \in 1..Len(available_chunkers) }

\* get_chunker(key).chunk(text), for a registered key.
get_chunker(key, text) ==
    CASE key = "all_in_one" -> AllInOneChunker(text)
      [] key = "fixed"      -> FixedSizeChunker(text, chunk_size, overlap)
      [] key = "semantic"   -> SemanticChunker(text, min_chunk_size)


\* ------------------------------------------------------------ the documents

Rep(c, n) == [ i \in 1..n |-> c ]

\* "Intro", a blank line, "pay now": no heading, one chunk under every strategy.
NotesText ==
    << "I", "n", "t", "r", "o", "\n", "\n", "p", "a", "y", " ", "n", "o", "w", "\n" >>

\* "1 Plan", a word of 400 p, a blank line, "2 Pay", a word of 400 q: one
\* chunk with the blank line under all_in_one, one without it under fixed,
\* two under semantic.
ReportText ==
    << "1", " ", "P", "l", "a", "n", "\n" >> \o Rep("p", 400) \o << "\n", "\n" >>
        \o << "2", " ", "P", "a", "y", "\n" >> \o Rep("q", 400)

\* The uploads, each with the identifier secrets.token_hex(8) draws for it.
Uploads ==
    { [ attachment_id |-> "a1", filename |-> "notes.txt",  text |-> NotesText ],
      [ attachment_id |-> "a2", filename |-> "report.txt", text |-> ReportText ] }

\* "1 Plan", a word of 400 p, and a line "pay" with a word of 396 q: one
\* chunk under all_in_one and fixed, two under semantic, the second of them
\* without a heading of its own.
PlanText ==
    << "1", " ", "P", "l", "a", "n", "\n" >> \o Rep("p", 400) \o << "\n" >>
        \o << "p", "a", "y", " " >> \o Rep("q", 396)

Plan == [ attachment_id |-> "a3", filename |-> "plan.txt", text |-> PlanText ]

\* Every document a session of the model is handed.
Library == Uploads \cup { Plan }

\* The texts the pure stages of the pipeline meet in a session over these
\* uploads: the chunks of every strategy.  The stages are functions of the
\* text alone, so their values on these texts are tabulated once.
ChunkMaps ==
    [ text \in { upload.text : upload \in Library } |->
        [ key \in ChunkerKeys |-> get_chunker(key, text) ] ]

ChunksIn(chunk_maps) ==
    UNION { { chunk_maps[text][key][i] : i \in 1..Len(chunk_maps[text][key]) } :
            text \in DOMAIN chunk_maps, key \in ChunkerKeys }

Corpus == ChunksIn(ChunkMaps)

Headings == [ text \in Corpus |-> detect_section_heading(text) ]

\* table[text] where the text is tabulated, the value computed otherwise.
Tabulated(table, text, computed) ==
    IF text \in DOMAIN table THEN table[text] ELSE computed

\* ---------------------------------------------------- indexing/embedding.py

WordChar == UpperAlpha \cup LowerAlpha \cup Digit \cup { "_", "'" }

\* The places where a match of _TOKEN_PATTERN, [\w']+, starts.
TokenStarts(s) ==
    { i \in 1..Len(s) : s[i] \in WordChar /\ (i = 1 \/ s[i - 1] \notin WordChar) }

TokenAt(s, i) == SubSeq(s, i, RunEnd(s, i, WordChar))

\* sum(f[x] for x in S)
RECURSIVE SumOver(_, _)
SumOver(f, S) ==
    IF S = {} THEN 0
    ELSE LET x == CHOOSE y \in S : TRUE
         IN  f[x] + SumOver(f, S \ { x })

RECURSIVE GCD(_, _)
GCD(a, b) == IF b = 0 THEN a ELSE GCD(b, a % b)

\* The square of a score num/sqrt(den), as a reduced fraction.
Score(num, den) ==
    IF num = 0 THEN [ num |-> 0, den |-> 1 ]
    ELSE LET g == GCD(num * num, den)
         IN  [ num |-> (num * num) \div g, den |-> den \div g ]

ScoreZero == [ num |-> 0, den |-> 1 ]

\* The score 1.0
ScoreOne == [ num |-> 1, den |-> 1 ]

ScoreLess(a, b) == a.num * b.den < b.num * a.den

ScorePositive(a) == a.num > 0

\* embed(text): the term counts Counter(tokens) of the lowercased text.  The
\* vector of the code is these counts divided by Norm(counts); the division
\* is carried out in cosine_similarity, where the score is formed.
embed(text) ==
    LET low    == Lower(text)
        starts == TokenStarts(low)
        tokens == { TokenAt(low, i) : i \in starts }
    IN  [ t \in tokens |-> Cardinality({ i \in starts : TokenAt(low, i) = t }) ]

Embeddings == [ text \in Corpus |-> embed(text) ]

\* embed(text), read from the table where the text is tabulated.
Embedded(text) == Tabulated(Embeddings, text, embed(text))

\* sum(counts.values()), squared: the counts divided by their sum.
SumOfCounts2(counts) == SumOver(counts, DOMAIN counts) * SumOver(counts, DOMAIN counts)

\* sum(value * value for value in counts.values()): the square of the norm.
Norm2(counts) == SumOver([ t \in DOMAIN counts |-> counts[t] * counts[t] ], DOMAIN counts)

cosine_similarity(left, right) ==
    IF DOMAIN left = {} \/ DOMAIN right = {} THEN ScoreZero
    ELSE LET swap == Cardinality(DOMAIN left) > Cardinality(DOMAIN right)
             l    == IF swap THEN right ELSE left
             r    == IF swap THEN left ELSE right
             dot  == SumOver([ t \in DOMAIN l |->
                                 l[t] * (IF t \in DOMAIN r THEN r[t] ELSE 0) ],
                             DOMAIN l)
         IN  Score(dot, Norm2(l) * Norm2(r))

\* --------------------------------------------------------- indexing/base.py

\* A metadata dict is a function from its keys; text values are sequences of
\* characters, section_path a sequence of texts.
EmptyDict == << >>

Has(meta, key) == key \in DOMAIN meta

\* meta.get(key) is truthy
Truthy(meta, key) == key \in DOMAIN meta /\ meta[key] # << >>

\* meta[key] = value
SetKey(meta, key, value) == (key :> value) @@ meta

General == << "G", "e", "n", "e", "r", "a", "l" >>

\* " > "
RankSep == << " ", ">", " " >>

\* The rank _derive_section_rank and _ensure_section_rank return.
SectionRankOf(meta) ==
    IF meta = EmptyDict THEN General
    ELSE IF Truthy(meta, "section_rank") THEN meta["section_rank"]
    ELSE IF Truthy(meta, "section_path") THEN Join(meta["section_path"], RankSep)
    ELSE IF Truthy(meta, "section_heading") THEN meta["section_heading"]
    ELSE IF Truthy(meta, "section") THEN meta["section"]
    ELSE General

\* The dict after _derive_section_rank(meta) / _ensure_section_rank(meta):
\* a missing rank is written into a non-empty dict.
WithSectionRank(meta) ==
    IF meta = EmptyDict \/ Truthy(meta, "section_rank") THEN meta
    ELSE SetKey(meta, "section_rank", SectionRankOf(meta))

_derive_section_rank(meta) == SectionRankOf(meta)

\* The second loop of the searches: `meta = match.metadata or {}` is a new
\* dict when the hit's metadata is empty, so the stamp is then lost.
StampSectionScore(meta, score) ==
    IF meta = EmptyDict THEN meta ELSE SetKey(meta, "section_score", score)

\* metadata[idx], None (the empty dict, as every reader takes `meta or {}`)
\* when the metadata list is shorter.
MetaAt(metadata, idx) == IF idx <= Len(metadata) THEN metadata[idx] ELSE EmptyDict

NullIndex == [ name |-> "none", _documents |-> << >> ]

NullIndex_add_documents(index, documents, metadata) ==
    [ index EXCEPT !._documents =
        @ \o [ i \in 1..Len(documents) |->
                 [ chunk |-> documents[i], meta |-> MetaAt(metadata, i) ] ] ]

\* max(section_scores.get(rank, 0.0), 1.0) over the matches of a rank.
NullSectionScore == ScoreOne

\* The first loop of NullIndex.search: a match for every document that
\* contains the query, with a copy of its metadata and the rank written in.
NullMatch(e) ==
    [ chunk    |-> e.chunk,
      score    |-> ScoreOne,
      metadata |-> StampSectionScore(WithSectionRank(e.meta), NullSectionScore) ]

NullMatches(documents, low_query) ==
    MapSeq(SelectSeq(documents, LAMBDA e : Contains(Lower(e.chunk), low_query)),
           NullMatch)

\* NullIndex.search without its first two lines.
NullIndex_search_unguarded(index, query, top_k) ==
    PySlice(NullMatches(index._documents, Lower(query)), 0, top_k)

NullIndex_search(index, query, top_k) ==
    IF Len(query) = 0 \/ Len(index._documents) = 0 THEN << >>
    ELSE PySlice(NullMatches(index._documents, Lower(query)), 0, top_k)

\* list.sort(key=lambda item: item.score, reverse=True): stable, so equal
\* scores keep their order.
RECURSIVE SortFrom(_, _, _)
SortFrom(items, i, sorted) ==
    IF i > Len(items) THEN sorted
    ELSE LET x      == items[i]
             lower  == { j \in 1..Len(sorted) : ScoreLess(sorted[j].score, x.score) }
             before == IF lower = {} THEN Len(sorted)
                       ELSE (CHOOSE j \in lower : \A k \in lower : j <= k) - 1
         IN  SortFrom(items, i + 1,
                      SubSeq(sorted, 1, before) \o << x >>
                          \o SubSeq(sorted, before + 1, Len(sorted)))

SortByScore(items) == SortFrom(items, 1, << >>)


\* ---------------------------------------------------- indexing/faiss_like.py

FaissLikeIndex == [ name |-> "faiss", _vectors |-> << >> ]

FaissLikeIndex_add_documents(index, documents, metadata) ==
    [ index EXCEPT !._vectors =
        @ \o [ i \in 1..Len(documents) |->
                 [ vector |-> Embedded(documents[i]),
                   chunk  |-> documents[i],
                   meta   |-> MetaAt(metadata, i) ] ] ]

_ensure_section_rank(meta) == SectionRankOf(meta)

\* The greatest of a non-empty set of scores.
MaxScore(scores) == CHOOSE sc \in scores : \A other \in scores : ~ScoreLess(sc, other)

\* section_scores[rank] after the first loop over the results: the greatest
\* score among the results of that rank.
SectionMax(results, rank) ==
    MaxScore({ results[i].score : i \in { j \in 1..Len(results) :
                   _ensure_section_rank(results[j].metadata) = rank } })

\* The loop of FaissLikeIndex.search over the vectors: a result for every
\* entry with a positive score, in insertion order.
FaissResult(e, score) ==
    [ chunk |-> e.chunk, score |-> score, metadata |-> WithSectionRank(e.meta) ]

\* The loop without `if score > 0`.
FaissResultsUnfiltered(vectors, query_vec) ==
    [ i \in 1..Len(vectors) |->
        FaissResult(vectors[i], cosine_similarity(query_vec, vectors[i].vector)) ]

FaissResults(vectors, query_vec) ==
    SelectSeq([ i \in 1..Len(vectors) |->
                  FaissResult(vectors[i], cosine_similarity(query_vec, vectors[i].vector)) ],
              LAMBDA r : ScorePositive(r.score))

\* The two loops over the sorted results: every result carries the best
\* score of its section.
StampSections(results) ==
    [ i \in 1..Len(results) |->
        [ results[i] EXCEPT !.metadata =
            StampSectionScore(@, SectionMax(results, _ensure_section_rank(@))) ] ]

FaissLikeIndex_search(index, query, top_k) ==
    IF Len(query) = 0 \/ Len(index._vectors) = 0 THEN << >>
    ELSE PySlice(StampSections(SortByScore(FaissResults(index._vectors, Embedded(query)))),
                 0, top_k)

\* ----------------------------------------------- indexing/llama_index_stub.py

\* _documents is a dict keyed by document: here the sequence of its
\* _DocumentNode values in insertion order, each with its doc_id.
LlamaIndexStub == [ name |-> "llama_index", _documents |-> << >> ]

\* f"doc_{idx}", the key of a chunk whose metadata names no document.
DefaultDocKeys == << "doc_0", "doc_1", "doc_2", "doc_3", "doc_4", "doc_5", "doc_6", "doc_7" >>

\* [part.strip() for part in str(rank).split(">") if part.strip()]
RankParts(rank) == SelectSeq(MapSeq(SplitOn(rank, ">"), Strip), NonEmpty)

\* The section path add_documents files a chunk under.
LlamaSectionPath(base_meta, section_heading) ==
    IF Truthy(base_meta, "section_path") THEN base_meta["section_path"]
    ELSE IF Truthy(base_meta, "section_rank") /\ Len(RankParts(base_meta["section_rank"])) > 0
         THEN RankParts(base_meta["section_rank"])
    ELSE << section_heading >>

LlamaSectionHeading(base_meta) ==
    IF Truthy(base_meta, "section_heading") THEN base_meta["section_heading"]
    ELSE IF Truthy(base_meta, "section") THEN base_meta["section"]
    ELSE General

\* The first index of a sequence whose element satisfies P, 0 if none.
FirstIndex(seq, P(_)) ==
    IF \A i \in 1..Len(seq) : ~P(seq[i]) THEN 0
    ELSE CHOOSE i \in 1..Len(seq) : P(seq[i]) /\ \A j \in 1..(i - 1) : ~P(seq[j])

\* One iteration of the loop of add_documents: chunk number idx (from 0).
LlamaAddOne(docs, idx, chunk, meta) ==
    LET base_meta       == meta
        doc_key         == IF Has(base_meta, "document_id") THEN base_meta["document_id"]
                           ELSE DefaultDocKeys[idx + 1]
        section_heading == LlamaSectionHeading(base_meta)
        section_path    == LlamaSectionPath(base_meta, section_heading)
        isDoc(n)        == n.doc_id = doc_key
        docs1           == IF FirstIndex(docs, isDoc) = 0
                           THEN Append(docs, [ doc_id |-> doc_key, sections |-> << >> ])
                           ELSE docs
        d               == FirstIndex(docs1, isDoc)
        isSection(x)    == x.path = section_path
        section_meta    == SetKey(SetKey(SetKey(base_meta,
                               "section_heading", section_heading),
                               "section_path", section_path),
                               "section_rank", Join(section_path, RankSep))
        sections1       == IF FirstIndex(docs1[d].sections, isSection) = 0
                           THEN Append(docs1[d].sections,
                                       [ heading  |-> section_heading,
                                         chunks   |-> << >>,
                                         metadata |-> section_meta,
                                         path     |-> section_path ])
                           ELSE docs1[d].sections
        k               == FirstIndex(sections1, isSection)
    IN  [ docs1 EXCEPT ![d].sections =
            [ sections1 EXCEPT ![k].chunks = Append(@, chunk) ] ]

RECURSIVE LlamaAddFrom(_, _, _, _)
LlamaAddFrom(docs, documents, metadata, i) ==
    IF i > Len(documents) THEN docs
    ELSE LlamaAddFrom(LlamaAddOne(docs, i - 1, documents[i], MetaAt(metadata, i)),
                      documents, metadata, i + 1)

LlamaIndexStub_add_documents(index, documents, metadata) ==
    [ index EXCEPT !._documents = LlamaAddFrom(@, documents, metadata, 1) ]

RECURSIVE Flatten(_)
Flatten(seqs) == IF Len(seqs) = 0 THEN << >> ELSE Head(seqs) \o Flatten(Tail(seqs))

\* The result of the first stage for one section node of one document.
SectionResult(doc_id, section, combined_text, query_vec) ==
    [ chunk    |-> combined_text,
      score    |-> cosine_similarity(query_vec, Embedded(combined_text)),
      metadata |-> SetKey(SetKey(section.metadata,
                       "document_id", doc_id),
                       "chunk_count", Len(section.chunks)) ]

\* The first stage of search: one scored result per section node, in the
\* order of the nested loops, zero scores skipped.
LlamaSectionScores(docs, query_vec) ==
    SelectSeq(Flatten([ d \in 1..Len(docs) |->
                  [ k \in 1..Len(docs[d].sections) |->
                      SectionResult(docs[d].doc_id, docs[d].sections[k],
                                    Join(docs[d].sections[k].chunks, NL), query_vec) ] ]),
              LAMBDA r : ScorePositive(r.score))

\* The hit of the second stage for one chunk of a section node.
ChunkResult(chunk, score, meta, section_heading, section_path) ==
    [ chunk    |-> chunk,
      score    |-> score,
      metadata |-> SetKey(SetKey(meta, "section_heading", section_heading),
                          "section_path", section_path) ]

\* The inner loop of the second stage over the chunks of the section node.
LlamaChunkResults(section_node, query_vec, meta, section_path) ==
    SelectSeq([ i \in 1..Len(section_node.chunks) |->
                  ChunkResult(section_node.chunks[i],
                              cosine_similarity(query_vec, Embedded(section_node.chunks[i])),
                              meta,
                              IF Has(meta, "section_heading") THEN meta["section_heading"]
                              ELSE section_node.heading,
                              section_path) ],
              LAMBDA r : ScorePositive(r.score))

\* The section node next(...) finds in the document node, d and k being the
\* positions of the document and of the section (0 when missing).
LlamaFound(docs, d, k, query_vec, meta, section_path) ==
    IF d = 0 \/ k = 0 THEN << >>
    ELSE LlamaChunkResults(docs[d].sections[k], query_vec, meta, section_path)

SectionAt(docs, d, section_path) ==
    IF d = 0 THEN 0 ELSE FirstIndex(docs[d].sections, LAMBDA x : x.path = section_path)

LlamaLookup(docs, d, query_vec, meta, section_path) ==
    LlamaFound(docs, d, SectionAt(docs, d, section_path), query_vec, meta, section_path)

LlamaExpandMeta(docs, query_vec, meta) ==
    LlamaLookup(docs,
                FirstIndex(docs, LAMBDA n : n.doc_id = meta["document_id"]),
                query_vec, meta,
                IF Truthy(meta, "section_path") THEN meta["section_path"] ELSE << >>)

\* The second stage for one of the top sections: its chunks with a positive
\* score, each with the section's metadata.
LlamaExpand(docs, query_vec, section) ==
    LlamaExpandMeta(docs, query_vec,
                    SetKey(section.metadata, "section_score", section.score))

\* Every scored section taken as a top section.
LlamaAllSectionsOf(docs, query_vec, top_k) ==
    SortByScore(LlamaSectionScores(docs, query_vec))

\* top_sections = section_scores[:top_k] after the sort.
LlamaTopSectionsOf(docs, query_vec, top_k) ==
    PySlice(SortByScore(LlamaSectionScores(docs, query_vec)), 0, top_k)

LlamaTopSections(docs, query, top_k) == LlamaTopSectionsOf(docs, Embedded(query), top_k)

\* `expanded` after the loop over the top sections.
LlamaExpanded(docs, query_vec, top_sections) ==
    Flatten([ i \in 1..Len(top_sections) |-> LlamaExpand(docs, query_vec, top_sections[i]) ])

LlamaSearchVec(docs, query_vec, top_k) ==
    PySlice(SortByScore(LlamaExpanded(docs, query_vec,
                                      LlamaTopSectionsOf(docs, query_vec, top_k))),
            0, top_k)

LlamaIndexStub_search(index, query, top_k) ==
    IF Len(query) = 0 \/ Len(index._documents) = 0 THEN << >>
    ELSE LlamaSearchVec(index._documents, Embedded(query), top_k)

\* ----------------------------------------------------- indexing/__init__.py

\* _INDEXER_FACTORIES.keys()
available_indexers == << "none", "faiss", "llama_index" >>

IndexerKeys == { available_indexers[i] : i \in 1..Len(available_indexers) }

\* get_indexer(key): a new, empty index of the strategy.
get_indexer(key) ==
    CASE key = "none"        -> NullIndex
      [] key = "faiss"       -> FaissLikeIndex
      [] key = "llama_index" -> LlamaIndexStub

\* index.add_documents(documents, metadata=metadata)
add_documents(index, documents, metadata) ==
    CASE index.name = "none"        -> NullIndex_add_documents(index, documents, metadata)
      [] index.name = "faiss"       -> FaissLikeIndex_add_documents(index, documents, metadata)
      [] index.name = "llama_index" -> LlamaIndexStub_add_documents(index, documents, metadata)

\* index.search(query, top_k=top_k)
search(index, query, top_k) ==
    CASE index.name = "none"        -> NullIndex_search(index, query, top_k)
      [] index.name = "faiss"       -> FaissLikeIndex_search(index, query, top_k)
      [] index.name = "llama_index" -> LlamaIndexStub_search(index, query, top_k)

\* The index after a search that writes the metadata of its hits, section
\* rank and score included, into the entries it holds for their chunks.
StoredAfterSearchInPlace(index, query, top_k) ==
    LET found      == search(index, query, top_k)
        HitsOf(e)  == { h \in 1..Len(found) : found[h].chunk = e.chunk }
        Written(e) == IF HitsOf(e) = { } THEN e
                      ELSE [ e EXCEPT !.meta = found[CHOOSE h \in HitsOf(e) : TRUE].metadata ]
    IN  CASE index.name = "none"  -> [ index EXCEPT !._documents = MapSeq(@, Written) ]
          [] index.name = "faiss" -> [ index EXCEPT !._vectors = MapSeq(@, Written) ]
          [] OTHER                -> index

\* The index after index.search(query, top_k=top_k): every search builds its
\* hits on copies of the metadata (dict(meta or {}), {**meta, ...}) and
\* writes rank and score into the copies, so the entries stay as they were.
StoredAfterSearch(index, query, top_k) == index

\* index.reset()
reset(index) ==
    CASE index.name = "none"        -> [ index EXCEPT !._documents = << >> ]
      [] index.name = "faiss"       -> [ index EXCEPT !._vectors = << >> ]
      [] index.name = "llama_index" -> [ index EXCEPT !._documents = << >> ]


\* ------------------------------------------------------ evaluation/metrics.py

\* A float the metrics return, as the reduced fraction num/den it stands for.
Ratio(n, d) ==
    LET g == GCD(n, d)
    IN  [ num |-> n \div g, den |-> d \div g ]

\* 0.0
Zero == Ratio(0, 1)

\* 1.0
One == Ratio(1, 1)

RatioLeq(a, b) == a.num * b.den <= b.num * a.den

RatioAdd(a, b) == Ratio(a.num * b.den + b.num * a.den, a.den * b.den)

\* sum(values) of floats
RECURSIVE RatioSum(_)
RatioSum(values) ==
    IF Len(values) = 0 THEN Zero ELSE RatioAdd(Head(values), RatioSum(Tail(values)))

\* sum(values) of ints
RECURSIVE SumSeq(_)
SumSeq(values) == IF Len(values) = 0 THEN 0 ELSE Head(values) + SumSeq(Tail(values))

precision_at_k(relevance, k) ==
    LET kk == Min(k, Len(relevance))
    IN  IF kk = 0 THEN Zero
        ELSE Ratio(SumSeq(PySlice(relevance, 0, kk)), kk)

\* The precision of the first k results, returned where the recall is asked.
recall_as_precision(relevance, total_relevant, k) == precision_at_k(relevance, k)

recall_at_k(relevance, total_relevant, k) ==
    IF total_relevant = 0 THEN Zero
    ELSE Ratio(SumSeq(PySlice(relevance, 0, Min(k, Len(relevance)))), total_relevant)

mean_reciprocal_rank(relevance) ==
    LET found == { idx \in 1..Len(relevance) : relevance[idx] # 0 }
    IN  IF found = { } THEN Zero
        ELSE Ratio(1, CHOOSE idx \in found : \A other \in found : idx <= other)

\* 1 / math.log2(idx + 2) for idx = 0, 1, ..., in millionths.
Log2Discount ==
    << 1000000, 630930, 500000, 430677, 386853, 356207, 333333, 315465 >>

\* _discounted_cumulative_gain(gains, k), in millionths.
RECURSIVE _discounted_cumulative_gain(_, _)
_discounted_cumulative_gain(gains, k) ==
    IF k = 0 THEN 0
    ELSE _discounted_cumulative_gain(gains, k - 1)
             + (2 ^ gains[k] - 1) * Log2Discount[k]

\* sorted(gains, reverse=True)
RECURSIVE SortedReverse(_)
SortedReverse(gains) ==
    IF Len(gains) = 0 THEN << >>
    ELSE LET top == CHOOSE i \in 1..Len(gains) : \A j \in 1..Len(gains) : gains[j] <= gains[i]
         IN  << gains[top] >>
                 \o SortedReverse(SubSeq(gains, 1, top - 1) \o SubSeq(gains, top + 1, Len(gains)))

ndcg_at_k(gains, k) ==
    LET kk    == Min(k, Len(gains))
        dcg   == _discounted_cumulative_gain(gains, kk)
        ideal == _discounted_cumulative_gain(SortedReverse(gains), kk)
    IN  IF kk = 0 THEN Zero
        ELSE IF ideal = 0 THEN Zero
        ELSE Ratio(dcg, ideal)

\* ------------------------------------------------------ memory/attachments.py

\* An Attachment: attachment_id, filename, text, chunks, chunks_by_strategy
\* (content_type, size, added_at and the extraction metadata are carried
\* along by the code and never read by the coordinator).
get_chunks(attachment, strategy) ==
    IF strategy \in DOMAIN attachment.chunks_by_strategy
    THEN attachment.chunks_by_strategy[strategy]
    ELSE attachment.chunks

\* Attachment.as_dict(): the identity of the document and its chunk counts
\* (word count and preview, functions of the text alone, are left out).
as_dict(attachment) ==
    [ attachment_id |-> attachment.attachment_id,
      filename      |-> attachment.filename,
      chunk_counts  |-> [ key \in DOMAIN attachment.chunks_by_strategy |->
                            Len(attachment.chunks_by_strategy[key]) ] ]

\* ---------------------------------------------------------- memory/session.py

_default_section_context ==
    [ heading    |-> General,
      title      |-> General,
      identifier |-> NoIdentifier,
      path       |-> << General >>,
      rank       |-> General,
      level      |-> 1 ]

\* No previous context (None).
NoContext == EmptyDict

\* _derive_section_context without the carry-over: a chunk without a heading
\* gets the default context.
_derive_section_context_alone(chunk, previous) ==
    IF detect_section_heading(chunk).matched
    THEN [ heading    |-> detect_section_heading(chunk).heading,
           title      |-> detect_section_heading(chunk).title,
           identifier |-> detect_section_heading(chunk).identifier,
           path       |-> detect_section_heading(chunk).path,
           rank       |-> Join(detect_section_heading(chunk).path, RankSep),
           level      |-> Len(detect_section_heading(chunk).path) ]
    ELSE _default_section_context

\* The context with the heading line as the rank and every section at
\* level 1.
SectionContextFlat(heading, previous) ==
    IF heading.matched
    THEN [ heading    |-> heading.heading,
           title      |-> heading.title,
           identifier |-> heading.identifier,
           path       |-> heading.path,
           rank       |-> heading.heading,
           level      |-> 1 ]
    ELSE IF previous # NoContext THEN previous
    ELSE _default_section_context

\* The context _derive_section_context builds from the heading detected in
\* the chunk, or carries over from the chunk before.
SectionContext(heading, previous) ==
    IF heading.matched
    THEN LET heading_text == IF Len(heading.heading) > 0 THEN heading.heading
                             ELSE IF Len(heading.title) > 0 THEN heading.title
                             ELSE General
             title        == IF Len(heading.title) > 0 THEN heading.title
                             ELSE heading_text
             path         == IF Len(heading.path) > 0 THEN heading.path
                             ELSE << title >>
         IN  [ heading    |-> heading_text,
               title      |-> title,
               identifier |-> heading.identifier,
               path       |-> path,
               rank       |-> Join(path, RankSep),
               level      |-> Len(path) ]
    ELSE IF previous # NoContext THEN previous
    ELSE _default_section_context

\* detect_section_heading(chunk), read from the table where the chunk is
\* tabulated.
DetectedHeading(chunk) == Tabulated(Headings, chunk, detect_section_heading(chunk))

_derive_section_context(chunk, previous) ==
    SectionContext(DetectedHeading(chunk), previous)

\* chunk_id, f"{attachment_id}:{chunk_index}", is kept as the pair it is
\* formatted from.
_build_chunk_metadata(attachment, chunk_index, context) ==
    LET identifier == context.identifier
        title      == IF Len(context.title) > 0 THEN context.title
                      ELSE IF Len(context.heading) > 0 THEN context.heading
                      ELSE General
        parts      == (IF Len(identifier) > 0 THEN << identifier >> ELSE << >>)
                          \o (IF Len(title) > 0 THEN << title >> ELSE << >>)
        joined     == Strip(Join(parts, << " " >>))
        label      == IF Len(joined) > 0 THEN joined ELSE context.heading
        metadata   ==
            [ attachment_id      |-> attachment.attachment_id,
              chunk_index        |-> chunk_index,
              chunk_id           |-> << attachment.attachment_id, chunk_index >>,
              filename           |-> attachment.filename,
              document_id        |-> attachment.attachment_id,
              document_label     |-> attachment.filename,
              section            |-> context.heading,
              section_title      |-> title,
              section_heading    |-> context.heading,
              section_label      |-> label,
              section_identifier |-> identifier,
              section_path       |-> context.path,
              section_rank       |-> context.rank,
              section_level      |-> context.level ]
    IN  IF identifier = NoIdentifier
        THEN [ k \in DOMAIN metadata \ { "section_identifier" } |-> metadata[k] ]
        ELSE metadata

\* The inner loop of _rebuild_index over chunks[i..] of one attachment, with
\* the section context of the chunk before: the metadata of those chunks.
RECURSIVE WalkChunks(_, _, _, _)

\* One iteration, with the context derived for chunk i.
WalkFrom(attachment, chunks, i, context) ==
    << _build_chunk_metadata(attachment, i - 1, context) >>
        \o WalkChunks(attachment, chunks, i + 1, context)

WalkChunks(attachment, chunks, i, section_context) ==
    IF i > Len(chunks) THEN << >>
    ELSE WalkFrom(attachment, chunks, i,
                  _derive_section_context(chunks[i], section_context))

\* `documents` and `metadata` at the end of the loops of _rebuild_index.
CollectDocuments(atts, strategy) ==
    Flatten([ a \in 1..Len(atts) |-> get_chunks(atts[a], strategy) ])

CollectMetadata(atts, strategy) ==
    Flatten([ a \in 1..Len(atts) |->
                WalkChunks(atts[a], get_chunks(atts[a], strategy), 1, NoContext) ])

\* The index _rebuild_index leaves in self._index.
Filled(fresh, documents, metadata) ==
    IF Len(documents) > 0 THEN add_documents(fresh, documents, metadata) ELSE fresh

RebuiltIndex(atts, chunking, indexing) ==
    Filled(reset(get_indexer(indexing)),
           CollectDocuments(atts, chunking),
           CollectMetadata(atts, chunking))

\* The entries _refresh_attachment_state writes into the state map.
RefreshedState(st, atts, chunking, indexing) ==
    [ st EXCEPT !.attachments        = MapSeq(atts, as_dict),
                !.chunking_strategy  = chunking,
                !.indexing_strategy  = indexing ]


\* ------------------------------------------------------------- the session

VARIABLES
    attachments,        \* Session.attachments: the Attachments in insertion order
    chunking_strategy,  \* Session.chunking_strategy
    indexing_strategy,  \* Session.indexing_strategy
    index,              \* Session._index: the active index object
    state,              \* Session.state
    outcome,            \* what the last call returned or raised
    chunker_runs,       \* per attachment and strategy, the runs of chunker.chunk on its text
    threads,            \* per request thread, the call it is in and that call's locals
    calls,              \* the calls the request threads have begun
    chunker,            \* a chunker on its own: the fields of its dataclass
    input_text,         \* the text handed to that chunker
    scan,               \* a call of FixedSizeChunker.chunk on its way through the loop
    store,              \* an index on its own, as a caller of the indexing package holds it
    added,              \* the chunks added to that index, in the order they were added
    asked,              \* the query and top_k of the latest search of that index
    hits,               \* the hits that search returned, as the caller holds them
    evaluation,         \* the latest call of Session.evaluate_retrieval: its queries,
                        \* the relevance flags it derived and the dict it returned
    measured,           \* a call of a function of evaluation/metrics.py or
                        \* indexing/embedding.py: its arguments and its value
    sessions,           \* SessionManager._sessions: the Session objects by session id
    objects,            \* the index objects those sessions hold, by reference
    target              \* the session the latest request of the manager addressed

sessionVars == << attachments, chunking_strategy, indexing_strategy, index, state >>

concVars == << threads, calls >>

chunkerVars == << chunker, input_text, scan >>

storeVars == << store, added, asked, hits >>

evalVars == << evaluation, measured >>

managerVars == << sessions, objects, target >>

vars == << attachments, chunking_strategy, indexing_strategy, index, state,
           outcome, chunker_runs, threads, calls, chunker, input_text, scan,
           store, added, asked, hits, evaluation, measured,
           sessions, objects, target >>

\* What the calls of one session, made one at a time, leave alone.
apart == << threads, calls, chunker, input_text, scan, store, added, asked, hits,
           evaluation, measured, sessions, objects, target >>

AttachmentIds == { upload.attachment_id : upload \in Library }

\* The keys a caller may pass to set_chunking_strategy / set_indexing_strategy.
ChunkingInputs == ChunkerKeys \cup { "bogus" }

IndexingInputs == IndexerKeys \cup { "bogus" }

Queries == { << >>, << "p", "a", "y" >> }

\* Session.search's default top_k.
TopKs == { 5 }

AttachedIds == { attachments[i].attachment_id : i \in 1..Len(attachments) }

\* A call that returned `value`.
Returned(op, value) == [ op |-> op, returned |-> value ]

\* A call of Session.search with its arguments and the hits it returned.
Searched(query, top_k, found) ==
    [ op |-> "search", query |-> query, top_k |-> top_k, returned |-> found ]

None == "None"

\* The request threads.
Threads == { 1, 2 }

\* The reference a thread's call of self._index.add_documents or
\* self._index.search runs on: the object self._index names (`active`), or,
\* once self._index was assigned again, the object it named before.
Active == [ active |-> TRUE, object |-> NullIndex ]

Detached(object) == [ active |-> FALSE, object |-> object ]

\* A thread that is in no call.  `before` and `allowed` are kept for the
\* properties: the complete index a mutating call found, and the results a
\* search may return if rebuilds are atomic.
Idle ==
    [ pc |-> "idle", op |-> None, result |-> None,
      documents |-> << >>, metadata |-> << >>, holds |-> Active, appended |-> 0,
      query |-> << >>, top_k |-> 0, before |-> NullIndex, allowed |-> { } ]

\* No search since the index last changed.
NotAsked == [ query |-> << >>, top_k |-> 0 ]

\* FixedSizeChunker() as the registry constructs it.
DefaultChunker == [ chunk_size |-> chunk_size, overlap |-> overlap ]

\* Session.__post_init__ on Session(session_id) as SessionManager creates it.
NewSession ==
    /\ attachments = << >>
    /\ chunking_strategy = "fixed"
    /\ indexing_strategy = "none"
    /\ index = reset(get_indexer("none"))
    /\ state = [ index_size        |-> 0,
                 attachments       |-> << >>,
                 chunking_strategy |-> "fixed",
                 indexing_strategy |-> "none" ]
    /\ outcome = Returned("__post_init__", None)
    /\ chunker_runs = [ id \in AttachmentIds |-> [ key \in ChunkerKeys |-> 0 ] ]

\* No request thread is in a call.
NoCalls ==
    /\ threads = [ t \in Threads |-> Idle ]
    /\ calls = 0

\* No call of chunk is under way.
NotScanning == [ pc |-> "idle", cleaned |-> << >>, start |-> 0, chunks |-> << >> ]

\* The registry's FixedSizeChunker, handed no text.
NoChunker ==
    /\ chunker = DefaultChunker
    /\ input_text = << >>
    /\ scan = NotScanning

\* A NullIndex nothing was added to or asked of.
NoStore ==
    /\ store = reset(get_indexer("none"))
    /\ added = << >>
    /\ asked = NotAsked
    /\ hits = << >>

\* No call of a metric: no arguments, no value.
NotMeasured ==
    [ fn |-> None, relevance |-> << >>, total_relevant |-> 0, k |-> 0, value |-> Zero ]

\* No call of evaluate_retrieval.
NotEvaluated ==
    [ by |-> None, queries |-> << >>, derived |-> << >>, returned |-> EmptyDict ]

NoEvaluation ==
    /\ evaluation = NotEvaluated
    /\ measured = NotMeasured

\* SessionManager(): no session, and so no index object and no request.
NoManager ==
    /\ sessions = << >>
    /\ objects = << >>
    /\ target = 0

Init == NewSession /\ NoCalls /\ NoChunker /\ NoStore /\ NoEvaluation /\ NoManager

\* _rebuild_index without its fresh indexer and its reset: the chunks are
\* added to the index that is already there.
_rebuild_index_onto_old(atts, chunking, indexing, st) ==
    /\ index' = Filled(index, CollectDocuments(atts, chunking),
                              CollectMetadata(atts, chunking))
    /\ state' = [ st EXCEPT !.index_size = Len(CollectDocuments(atts, chunking)) ]

\* _rebuild_index: the index and state["index_size"] it leaves.
_rebuild_index(atts, chunking, indexing, st) ==
    /\ index' = RebuiltIndex(atts, chunking, indexing)
    /\ state' = [ st EXCEPT !.index_size = Len(CollectDocuments(atts, chunking)) ]

\* _refresh_attachment_state() then _rebuild_index(), once the fields are
\* assigned.
RefreshAndRebuild(atts, chunking, indexing) ==
    /\ attachments' = atts
    /\ chunking_strategy' = chunking
    /\ indexing_strategy' = indexing
    /\ _rebuild_index(atts, chunking, indexing,
                      RefreshedState(state, atts, chunking, indexing))

\* chunk_map of add_attachment: every registered chunker run on the text.
ChunkMap(text) ==
    Tabulated(ChunkMaps, text, [ key \in ChunkerKeys |-> get_chunker(key, text) ])

\* The Attachment add_attachment constructs.
NewAttachment(upload, chunk_map, strategy) ==
    [ attachment_id      |-> upload.attachment_id,
      filename           |-> upload.filename,
      text               |-> upload.text,
      chunks             |-> IF strategy \in DOMAIN chunk_map THEN chunk_map[strategy]
                             ELSE chunk_map["fixed"],
      chunks_by_strategy |-> chunk_map ]

add_attachment(upload) ==
    /\ upload.attachment_id \notin AttachedIds
    /\ RefreshAndRebuild(
           Append(attachments,
                  NewAttachment(upload, ChunkMap(upload.text), chunking_strategy)),
           chunking_strategy, indexing_strategy)
    /\ outcome' = Returned("add_attachment", upload.attachment_id)
    /\ chunker_runs' = [ chunker_runs EXCEPT ![upload.attachment_id] =
                           [ key \in ChunkerKeys |-> 1 ] ]
    /\ UNCHANGED apart

\* remove_attachment without its call of _rebuild_index.
remove_attachment_no_rebuild(attachment_id) ==
    /\ UNCHANGED apart
    /\ IF attachment_id \notin AttachedIds
       THEN /\ outcome' = Returned("remove_attachment", FALSE)
            /\ UNCHANGED << sessionVars, chunker_runs >>
       ELSE /\ attachments' = SelectSeq(attachments, LAMBDA a : a.attachment_id # attachment_id)
            /\ state' = RefreshedState(state,
                             SelectSeq(attachments, LAMBDA a : a.attachment_id # attachment_id),
                             chunking_strategy, indexing_strategy)
            /\ UNCHANGED << chunking_strategy, indexing_strategy, index >>
            /\ outcome' = Returned("remove_attachment", TRUE)
            /\ chunker_runs' = [ chunker_runs EXCEPT ![attachment_id] =
                                   [ key \in ChunkerKeys |-> 0 ] ]

remove_attachment(attachment_id) ==
    /\ UNCHANGED apart
    /\ IF attachment_id \notin AttachedIds
       THEN /\ outcome' = Returned("remove_attachment", FALSE)
            /\ UNCHANGED << sessionVars, chunker_runs >>
       ELSE /\ RefreshAndRebuild(
                   SelectSeq(attachments, LAMBDA a : a.attachment_id # attachment_id),
                   chunking_strategy, indexing_strategy)
            /\ outcome' = Returned("remove_attachment", TRUE)
            /\ chunker_runs' = [ chunker_runs EXCEPT ![attachment_id] =
                                   [ key \in ChunkerKeys |-> 0 ] ]

\* raise ValueError(f"Unsupported ... strategy '{strategy}'")
ValueError(op, strategy) ==
    [ op |-> op, raised |-> "ValueError", names |-> strategy ]

\* The chunker run on every switch, whatever the cache holds.
AlwaysMissing(attachment, strategy) == TRUE

\* `strategy not in attachment.chunks_by_strategy`: the guard of the chunker
\* run in the loop of set_chunking_strategy.
NotCached(attachment, strategy) == strategy \notin DOMAIN attachment.chunks_by_strategy

\* attachment.chunks_by_strategy after the body of the loop of
\* set_chunking_strategy: filled where the strategy is missing.
CacheWith(attachment, strategy) ==
    IF NotCached(attachment, strategy)
    THEN (strategy :> get_chunker(strategy, attachment.text))
             @@ attachment.chunks_by_strategy
    ELSE attachment.chunks_by_strategy

WithCache(attachment, cache, strategy) ==
    [ attachment EXCEPT !.chunks_by_strategy = cache, !.chunks = cache[strategy] ]

\* The loop of set_chunking_strategy over the attachments: the cache is
\* filled where the strategy is missing, and `chunks` follows the strategy.
Rechunked(atts, strategy) ==
    [ i \in 1..Len(atts) |-> WithCache(atts[i], CacheWith(atts[i], strategy), strategy) ]

\* set_chunking_strategy from the assignment of the strategy on, for a
\* registered strategy that differs from the active one.
SwitchChunking(strategy) ==
    /\ RefreshAndRebuild(Rechunked(attachments, strategy), strategy, indexing_strategy)
    /\ outcome' = Returned("set_chunking_strategy", None)
    /\ chunker_runs' =
           [ id \in AttachmentIds |->
               IF \E i \in 1..Len(attachments) :
                     /\ attachments[i].attachment_id = id
                     /\ NotCached(attachments[i], strategy)
               THEN [ chunker_runs[id] EXCEPT ![strategy] = @ + 1 ]
               ELSE chunker_runs[id] ]

\* set_chunking_strategy with the strategy assigned before it is validated.
set_chunking_strategy_assign_first(strategy) ==
    /\ UNCHANGED apart
    /\ IF strategy = chunking_strategy
       THEN /\ outcome' = Returned("set_chunking_strategy", None)
            /\ UNCHANGED << sessionVars, chunker_runs >>
       ELSE IF strategy \notin ChunkerKeys
       THEN /\ chunking_strategy' = strategy
            /\ outcome' = ValueError("set_chunking_strategy", strategy)
            /\ UNCHANGED << attachments, indexing_strategy, index, state, chunker_runs >>
       ELSE SwitchChunking(strategy)

set_chunking_strategy(strategy) ==
    /\ UNCHANGED apart
    /\ IF strategy = chunking_strategy
       THEN /\ outcome' = Returned("set_chunking_strategy", None)
            /\ UNCHANGED << sessionVars, chunker_runs >>
       ELSE IF strategy \notin ChunkerKeys
       THEN /\ outcome' = ValueError("set_chunking_strategy", strategy)
            /\ UNCHANGED << sessionVars, chunker_runs >>
       ELSE SwitchChunking(strategy)

set_indexing_strategy(strategy) ==
    /\ UNCHANGED apart
    /\ IF strategy = indexing_strategy
       THEN /\ outcome' = Returned("set_indexing_strategy", None)
            /\ UNCHANGED << sessionVars, chunker_runs >>
       ELSE IF strategy \notin IndexerKeys
       THEN /\ outcome' = ValueError("set_indexing_strategy", strategy)
            /\ UNCHANGED << sessionVars, chunker_runs >>
       ELSE /\ indexing_strategy' = strategy
            /\ _rebuild_index(attachments, chunking_strategy, strategy, state)
            /\ UNCHANGED << attachments, chunking_strategy >>
            /\ outcome' = Returned("set_indexing_strategy", None)
            /\ UNCHANGED chunker_runs

\* Session.search
Session_search(query, top_k) ==
    /\ outcome' = Searched(query, top_k, search(index, query, top_k))
    /\ index' = StoredAfterSearch(index, query, top_k)
    /\ UNCHANGED << attachments, chunking_strategy, indexing_strategy, state, chunker_runs >>
    /\ UNCHANGED apart

Next ==
    \/ \E upload \in Uploads : add_attachment(upload)
    \/ \E id \in AttachmentIds : remove_attachment(id)
    \/ \E key \in ChunkingInputs : set_chunking_strategy(key)
    \/ \E key \in IndexingInputs : set_indexing_strategy(key)
    \/ \E query \in Queries, top_k \in TopKs : Session_search(query, top_k)

Spec == Init /\ [][Next]_vars

\* ------------------------------------------- the session, rebuilt on demand

\* A call of Session._rebuild_index() on its own, between two operations.
Session_rebuild_index ==
    /\ _rebuild_index(attachments, chunking_strategy, indexing_strategy, state)
    /\ outcome' = Returned("_rebuild_index", None)
    /\ UNCHANGED << attachments, chunking_strategy, indexing_strategy, chunker_runs >>
    /\ UNCHANGED apart

NextRebuild == Next \/ Session_rebuild_index

SpecRebuild == Init /\ [][NextRebuild]_vars

\* --------------------------------------- the session, over the whole library

\* The calls of the session, with the plan among the documents: under the
\* semantic chunker its second chunk has no heading of its own.
NextLibrary ==
    \/ Next
    \/ add_attachment(Plan)

SpecLibrary == Init /\ [][NextLibrary]_vars

\* ------------------------------------- calls of request threads on one session
\*
\* The endpoints of app.py run on the threads of the server and Session
\* takes no lock, so the calls of two requests on one session interleave.  A
\* mutating call is cut where _rebuild_index reads or writes what the other
\* thread can see: the part before _rebuild_index is one step, then
\* self._index is assigned, the documents are collected, self._index is read
\* for add_documents, each chunk is appended, and state["index_size"] is
\* written.  search reads self._index in one step and runs on it in another.

\* The calls begun in one run.
MaxCalls == 3

ConcChunkingInputs == { "fixed", "semantic" }

ConcIndexingInputs == { "none", "faiss" }

ConcQueries == { << "p", "a", "y" >> }

\* A thread begins a call.
CanCall(t) == threads[t].pc = "idle" /\ calls < MaxCalls

\* The threads after thread t has run a mutating call up to _rebuild_index,
\* leaving the session with these attachments and strategies.
Begun(t, op, result, atts, chunking, indexing) ==
    [ u \in Threads |->
        IF u = t
        THEN [ Idle EXCEPT !.pc = "rebuild", !.op = op, !.result = result,
                           !.before = RebuiltIndex(attachments, chunking_strategy,
                                                   indexing_strategy) ]
        ELSE IF threads[u].pc = "search"
        THEN [ threads[u] EXCEPT !.allowed =
                 @ \cup { search(RebuiltIndex(atts, chunking, indexing),
                                 threads[u].query, threads[u].top_k) } ]
        ELSE threads[u] ]

\* The assignments of a mutating call before _rebuild_index.
Begin(t, op, result, atts, chunking, indexing, st) ==
    /\ attachments' = atts
    /\ chunking_strategy' = chunking
    /\ indexing_strategy' = indexing
    /\ state' = st
    /\ threads' = Begun(t, op, result, atts, chunking, indexing)
    /\ calls' = calls + 1
    /\ UNCHANGED << index, outcome >>

\* A call that returns or raises before it changes anything.
Refused(result) ==
    /\ outcome' = result
    /\ calls' = calls + 1
    /\ UNCHANGED << sessionVars, threads >>

\* add_attachment up to _rebuild_index
Call_add_attachment(t, upload) ==
    /\ CanCall(t)
    /\ upload.attachment_id \notin AttachedIds
    /\ Begin(t, "add_attachment", upload.attachment_id,
             Append(attachments,
                    NewAttachment(upload, ChunkMap(upload.text), chunking_strategy)),
             chunking_strategy, indexing_strategy,
             RefreshedState(state,
                 Append(attachments,
                        NewAttachment(upload, ChunkMap(upload.text), chunking_strategy)),
                 chunking_strategy, indexing_strategy))
    /\ UNCHANGED << chunker_runs, managerVars, chunkerVars, evalVars, storeVars >>

\* remove_attachment up to _rebuild_index
Call_remove_attachment(t, attachment_id) ==
    /\ CanCall(t)
    /\ IF attachment_id \notin AttachedIds
       THEN Refused(Returned("remove_attachment", FALSE))
       ELSE Begin(t, "remove_attachment", TRUE,
                  SelectSeq(attachments, LAMBDA a : a.attachment_id # attachment_id),
                  chunking_strategy, indexing_strategy,
                  RefreshedState(state,
                      SelectSeq(attachments, LAMBDA a : a.attachment_id # attachment_id),
                      chunking_strategy, indexing_strategy))
    /\ UNCHANGED << chunker_runs, managerVars, chunkerVars, evalVars, storeVars >>

\* set_chunking_strategy up to _rebuild_index
Call_set_chunking_strategy(t, strategy) ==
    /\ CanCall(t)
    /\ IF strategy = chunking_strategy
       THEN Refused(Returned("set_chunking_strategy", None))
       ELSE IF strategy \notin ChunkerKeys
       THEN Refused(ValueError("set_chunking_strategy", strategy))
       ELSE Begin(t, "set_chunking_strategy", None,
                  Rechunked(attachments, strategy), strategy, indexing_strategy,
                  RefreshedState(state, Rechunked(attachments, strategy), strategy,
                                 indexing_strategy))
    /\ UNCHANGED << chunker_runs, managerVars, chunkerVars, evalVars, storeVars >>

\* set_indexing_strategy up to _rebuild_index
Call_set_indexing_strategy(t, strategy) ==
    /\ CanCall(t)
    /\ IF strategy = indexing_strategy
       THEN Refused(Returned("set_indexing_strategy", None))
       ELSE IF strategy \notin IndexerKeys
       THEN Refused(ValueError("set_indexing_strategy", strategy))
       ELSE Begin(t, "set_indexing_strategy", None,
                  attachments, chunking_strategy, strategy, state)
    /\ UNCHANGED << chunker_runs, managerVars, chunkerVars, evalVars, storeVars >>

\* The complete indexes a search that begins now may answer from if
\* rebuilds are atomic: the one of the session as it is and the one every
\* mutating call in flight found.
CompleteNow ==
    { RebuiltIndex(attachments, chunking_strategy, indexing_strategy) }
        \cup { threads[u].before :
                 u \in { v \in Threads : threads[v].pc \notin { "idle", "search" } } }

\* search: self._index is read.
Call_search(t, query, top_k) ==
    /\ CanCall(t)
    /\ threads' = [ threads EXCEPT ![t] =
           [ Idle EXCEPT !.pc = "search", !.op = "search",
                         !.query = query, !.top_k = top_k,
                         !.allowed = { search(complete, query, top_k) :
                                          complete \in CompleteNow } ] ]
    /\ calls' = calls + 1
    /\ UNCHANGED << sessionVars, outcome, chunker_runs, managerVars, chunkerVars, evalVars, storeVars >>

\* search: IndexingStrategy.search runs on the object that was read.
Search_run(t) ==
    /\ threads[t].pc = "search"
    /\ outcome' = Returned("search",
                      search(IF threads[t].holds.active THEN index
                             ELSE threads[t].holds.object,
                             threads[t].query, threads[t].top_k))
    /\ threads' = [ threads EXCEPT ![t] = Idle ]
    /\ UNCHANGED << sessionVars, calls, chunker_runs, managerVars, chunkerVars, evalVars, storeVars >>

\* _rebuild_index: self._index = get_indexer(self.indexing_strategy) and its
\* reset.  A thread that runs on the object self._index named keeps that
\* object.
Rebuild_install(t) ==
    /\ threads[t].pc = "rebuild"
    /\ index' = reset(get_indexer(indexing_strategy))
    /\ threads' =
           [ u \in Threads |->
               IF u = t THEN [ threads[u] EXCEPT !.pc = "collect" ]
               ELSE IF threads[u].pc \in { "append", "search" } /\ threads[u].holds.active
               THEN [ threads[u] EXCEPT !.holds = Detached(index) ]
               ELSE threads[u] ]
    /\ UNCHANGED << attachments, chunking_strategy, indexing_strategy, state,
                    outcome, calls, chunker_runs, managerVars, chunkerVars, evalVars, storeVars >>

\* The thread after the loops of _rebuild_index over the attachments.
Collected(th, documents, metadata) ==
    [ th EXCEPT !.documents = documents,
                !.metadata  = metadata,
                !.pc        = IF Len(documents) > 0 THEN "add_documents"
                              ELSE "index_size" ]

\* _rebuild_index: the loops over self.attachments.values()
Rebuild_collect(t) ==
    /\ threads[t].pc = "collect"
    /\ threads' = [ threads EXCEPT ![t] =
           Collected(@, CollectDocuments(attachments, chunking_strategy),
                        CollectMetadata(attachments, chunking_strategy)) ]
    /\ UNCHANGED << sessionVars, outcome, calls, chunker_runs, managerVars, chunkerVars, evalVars, storeVars >>

\* _rebuild_index: self._index is read for the call of add_documents.
Rebuild_add_documents(t) ==
    /\ threads[t].pc = "add_documents"
    /\ threads' = [ threads EXCEPT ![t] =
           [ @ EXCEPT !.holds = Active, !.appended = 0, !.pc = "append" ] ]
    /\ UNCHANGED << sessionVars, outcome, calls, chunker_runs, managerVars, chunkerVars, evalVars, storeVars >>

\* The thread after one more chunk is appended, the object having become
\* `object`.
Appended(th, object) ==
    [ th EXCEPT !.appended = @ + 1,
                !.holds    = IF th.holds.active THEN Active ELSE Detached(object),
                !.pc       = IF th.appended + 1 = Len(th.documents) THEN "index_size"
                             ELSE "append" ]

\* The object add_documents runs on after the next chunk of the thread is
\* appended to it.
NextAppended(th, object) ==
    add_documents(object, << th.documents[th.appended + 1] >>,
                          << th.metadata[th.appended + 1] >>)

\* add_documents: one iteration of its loop.
Rebuild_append(t) ==
    /\ threads[t].pc = "append"
    /\ IF threads[t].holds.active
       THEN /\ index' = NextAppended(threads[t], index)
            /\ threads' = [ threads EXCEPT ![t] = Appended(@, NullIndex) ]
       ELSE /\ index' = index
            /\ threads' = [ threads EXCEPT ![t] =
                   Appended(@, NextAppended(@, @.holds.object)) ]
    /\ UNCHANGED << attachments, chunking_strategy, indexing_strategy, state,
                    outcome, calls, chunker_runs, managerVars, chunkerVars, evalVars, storeVars >>

\* _rebuild_index: self.state["index_size"] = len(documents), and the call
\* returns.
Rebuild_index_size(t) ==
    /\ threads[t].pc = "index_size"
    /\ state' = [ state EXCEPT !.index_size = Len(threads[t].documents) ]
    /\ outcome' = Returned(threads[t].op, threads[t].result)
    /\ threads' = [ threads EXCEPT ![t] = Idle ]
    /\ UNCHANGED << attachments, chunking_strategy, indexing_strategy, index,
                    calls, chunker_runs, managerVars, chunkerVars, evalVars, storeVars >>

NextConc ==
    \/ \E t \in Threads, upload \in Uploads : Call_add_attachment(t, upload)
    \/ \E t \in Threads, id \in AttachmentIds : Call_remove_attachment(t, id)
    \/ \E t \in Threads, key \in ConcChunkingInputs : Call_set_chunking_strategy(t, key)
    \/ \E t \in Threads, key \in ConcIndexingInputs : Call_set_indexing_strategy(t, key)
    \/ \E t \in Threads, query \in ConcQueries, top_k \in TopKs : Call_search(t, query, top_k)
    \/ \E t \in Threads : Search_run(t)
    \/ \E t \in Threads : Rebuild_install(t)
    \/ \E t \in Threads : Rebuild_collect(t)
    \/ \E t \in Threads : Rebuild_add_documents(t)
    \/ \E t \in Threads : Rebuild_append(t)
    \/ \E t \in Threads : Rebuild_index_size(t)

SpecConc == Init /\ [][NextConc]_vars

\* ------------------------------------------- a FixedSizeChunker on its own

\* The largest chunk_size, the largest overlap and the longest text tried.
MaxSize == 3

MaxOverlap == 3

MaxTextLen == 5

Sizes == 1..MaxSize

Overlaps == 0..MaxOverlap

Alphabet == { "a", "b", " ", "\n" }

Texts == UNION { [ 1..n -> Alphabet ] : n \in 0..MaxTextLen }

\* The registry's chunker and a text a caller has at hand.
InitChunk ==
    /\ NewSession /\ NoCalls /\ NoStore /\ NoEvaluation /\ NoManager
    /\ chunker = DefaultChunker
    /\ input_text \in Texts
    /\ scan = NotScanning

\* FixedSizeChunker(chunk_size=size, overlap=lap): the dataclass constructor
\* stores both fields as given.
FixedSizeChunker_init(size, lap) ==
    /\ chunker' = [ chunk_size |-> size, overlap |-> lap ]
    /\ outcome' = Returned("FixedSizeChunker", None)
    /\ UNCHANGED << sessionVars, chunker_runs, managerVars, concVars, input_text, scan, evalVars, storeVars >>

\* FixedSizeChunker.chunk(text)
FixedSizeChunker_chunk ==
    /\ outcome' = Returned("chunk",
                      FixedSizeChunker(input_text, chunker.chunk_size, chunker.overlap))
    /\ UNCHANGED << sessionVars, chunker_runs, managerVars, concVars, chunkerVars, evalVars, storeVars >>

NextChunk ==
    \/ \E size \in Sizes, lap \in Overlaps : FixedSizeChunker_init(size, lap)
    \/ FixedSizeChunker_chunk

SpecChunk == InitChunk /\ [][NextChunk]_vars

\* ------------------------------- FixedSizeChunker.chunk, step by step

\* Every chunk_size and overlap an integer field can be given, negative
\* ones included.
LoopSizes == (0 - MaxSize)..MaxSize

LoopOverlaps == (0 - MaxOverlap)..MaxOverlap

\* The texts: what the loop does depends on the length of the normalised
\* text alone, so one letter and the newline are enough.
LoopTexts == UNION { [ 1..n -> { "a", "\n" } ] : n \in 0..MaxTextLen }

\* The registry's chunker and a text a caller has at hand.
InitLoop ==
    /\ NewSession /\ NoCalls /\ NoStore /\ NoEvaluation /\ NoManager
    /\ chunker = DefaultChunker
    /\ input_text \in LoopTexts
    /\ scan = NotScanning

\* The next window starts overlap characters before the end of this one.
NaiveNextStart(start, end, lap) == end - lap

\* start = max(end - self.overlap, start + 1)
NextStart(start, end, lap) == Max(end - lap, start + 1)

\* chunk() has returned `chunks`.
Scanned(cleaned, chunks) ==
    [ pc |-> "done", cleaned |-> cleaned, start |-> 0, chunks |-> chunks ]

\* FixedSizeChunker.chunk(text) up to its loop: the text is normalised, and
\* an empty or short one is returned at once.
Chunk_begin ==
    /\ scan.pc # "loop"
    /\ scan' = IF Len(_normalise_text(input_text)) = 0
               THEN Scanned(<< >>, << >>)
               ELSE IF Len(_normalise_text(input_text)) <= chunker.chunk_size
               THEN Scanned(_normalise_text(input_text), << _normalise_text(input_text) >>)
               ELSE [ pc |-> "loop", cleaned |-> _normalise_text(input_text),
                      start |-> 0, chunks |-> << >> ]
    /\ outcome' = Returned("chunk", scan'.pc)
    /\ UNCHANGED << chunker, input_text >>
    /\ UNCHANGED << sessionVars, chunker_runs, managerVars, concVars, evalVars, storeVars >>

\* One pass of `while start < len(cleaned)`: the window is appended, and the
\* loop is left at the end of the text or the start moves on.
Chunk_iterate ==
    /\ scan.pc = "loop"
    /\ scan' = IF ~(scan.start < Len(scan.cleaned))
               THEN Scanned(scan.cleaned, scan.chunks)
               ELSE IF scan.start + chunker.chunk_size >= Len(scan.cleaned)
               THEN Scanned(scan.cleaned,
                            Append(scan.chunks,
                                   PySlice(scan.cleaned, scan.start,
                                           scan.start + chunker.chunk_size)))
               ELSE [ scan EXCEPT
                        !.start = NextStart(scan.start, scan.start + chunker.chunk_size,
                                            chunker.overlap),
                        !.chunks = Append(@, PySlice(scan.cleaned, scan.start,
                                                     scan.start + chunker.chunk_size)) ]
    /\ outcome' = Returned("chunk", scan'.pc)
    /\ UNCHANGED << chunker, input_text >>
    /\ UNCHANGED << sessionVars, chunker_runs, managerVars, concVars, evalVars, storeVars >>

\* The chunker is configured between the calls of chunk, not during one.
NextLoop ==
    \/ \E size \in LoopSizes, lap \in LoopOverlaps :
           scan.pc # "loop" /\ FixedSizeChunker_init(size, lap)
    \/ Chunk_begin
    \/ Chunk_iterate

\* The thread that called chunk keeps running it.
SpecLoop == InitLoop /\ [][NextLoop]_vars /\ WF_vars(Chunk_iterate)

\* -------------------------------------------- a SemanticChunker on its own

\* The largest min_chunk_size tried.
MaxMinSize == 6

MinSizes == (0 - 1)..MaxMinSize

\* The registry's SemanticChunker and a text a caller has at hand.
InitSemantic ==
    /\ NewSession /\ NoCalls /\ NoStore /\ NoEvaluation /\ NoManager
    /\ chunker = [ min_chunk_size |-> min_chunk_size ]
    /\ input_text \in Texts
    /\ scan = NotScanning

\* SemanticChunker(min_chunk_size=minsize): the dataclass constructor stores
\* the field as given.
SemanticChunker_init(minsize) ==
    /\ chunker' = [ min_chunk_size |-> minsize ]
    /\ outcome' = Returned("SemanticChunker", None)
    /\ UNCHANGED << sessionVars, chunker_runs, managerVars, concVars, input_text, scan, evalVars, storeVars >>

\* SemanticChunker.chunk(text)
SemanticChunker_chunk ==
    /\ outcome' = Returned("chunk", SemanticChunker(input_text, chunker.min_chunk_size))
    /\ UNCHANGED << sessionVars, chunker_runs, managerVars, concVars, chunkerVars, evalVars, storeVars >>

NextSemantic ==
    \/ \E minsize \in MinSizes : SemanticChunker_init(minsize)
    \/ SemanticChunker_chunk

SpecSemantic == InitSemantic /\ [][NextSemantic]_vars

\* ---------------------------------------------------- an index on its own

\* The most chunks the index is given.
MaxStored == 3

\* A chunk's metadata as the coordinator builds it, cut to the keys the
\* indexes read.
SectionMeta(doc, heading) ==
    [ document_id     |-> doc,
      section_heading |-> heading,
      section_path    |-> << heading >> ]

IntroHeading == << "I", "n", "t", "r", "o" >>

PricingHeading == << "P", "r", "i", "c", "i", "n", "g" >>

\* The chunks a caller has at hand: "a c b" of section Intro, "a" and "c" of
\* section Pricing, and "A" with no metadata.
Pool ==
    { [ chunk |-> << "a", " ", "c", " ", "b" >>, meta |-> SectionMeta("d1", IntroHeading) ],
      [ chunk |-> << "a" >>,                     meta |-> SectionMeta("d1", PricingHeading) ],
      [ chunk |-> << "c" >>,                     meta |-> SectionMeta("d1", PricingHeading) ],
      [ chunk |-> << "A" >>,                     meta |-> EmptyDict ] }

\* The batches handed to add_documents: one or two chunks of the pool.
Batches ==
    { << e >> : e \in Pool }
        \cup { pair \in Pool \X Pool : pair[1] # pair[2] }

IndexQueries == { << >>, << "a" >>, << "a", " ", "c" >> }

IndexTopKs == { 1, 2 }

\* What a caller appends to a section_path it was handed.
Mark == << "x" >>

\* No stored list is shared with a hit.
NoOwner == << >>

\* The position of the entry that holds a chunk.
EntryOf(entries, chunk) == FirstIndex(entries, LAMBDA e : e.chunk = chunk)

\* The section node of a LlamaIndexStub a hit was expanded from.
LlamaOwner(docs, d, section_path) == << d, SectionAt(docs, d, section_path) >>

\* The stored list that metadata["section_path"] of a hit is.  NullIndex and
\* FaissLikeIndex hand out dict(meta), a copy of the entry's dict that holds
\* the entry's own list; LlamaIndexStub hands out the list that is both the
\* path of the section node and the section_path of its metadata.
PathOwner(idx, hit) ==
    IF ~Has(hit.metadata, "section_path") THEN NoOwner
    ELSE CASE idx.name = "none"        -> << EntryOf(idx._documents, hit.chunk) >>
           [] idx.name = "faiss"       -> << EntryOf(idx._vectors, hit.chunk) >>
           [] idx.name = "llama_index" ->
                  LlamaOwner(idx._documents,
                             FirstIndex(idx._documents,
                                        LAMBDA n : n.doc_id = hit.metadata["document_id"]),
                             hit.metadata["section_path"])

\* The hits of a search as the caller holds them, each with the owner of
\* its section_path list.
Held(idx, results) ==
    [ i \in 1..Len(results) |->
        [ chunk    |-> results[i].chunk,
          score    |-> results[i].score,
          metadata |-> results[i].metadata,
          shares   |-> PathOwner(idx, results[i]) ] ]

\* The index after the list an owner stands for has become `path`.
WithPath(idx, owner, path) ==
    CASE idx.name = "none" ->
             [ idx EXCEPT !._documents[owner[1]].meta = SetKey(@, "section_path", path) ]
      [] idx.name = "faiss" ->
             [ idx EXCEPT !._vectors[owner[1]].meta = SetKey(@, "section_path", path) ]
      [] idx.name = "llama_index" ->
             [ idx EXCEPT !._documents[owner[1]].sections[owner[2]] =
                 [ @ EXCEPT !.path = path,
                            !.metadata = SetKey(@, "section_path", path) ] ]

\* The section_path lists the index holds.
StoredPaths(idx) ==
    CASE idx.name = "none" ->
             { idx._documents[i].meta["section_path"] :
                 i \in { j \in 1..Len(idx._documents) :
                           Has(idx._documents[j].meta, "section_path") } }
      [] idx.name = "faiss" ->
             { idx._vectors[i].meta["section_path"] :
                 i \in { j \in 1..Len(idx._vectors) :
                           Has(idx._vectors[j].meta, "section_path") } }
      [] idx.name = "llama_index" ->
             UNION { { idx._documents[d].sections[k].path :
                         k \in 1..Len(idx._documents[d].sections) } :
                     d \in 1..Len(idx._documents) }

\* A caller has already appended to a list of this index.
Marked(idx) == \E path \in StoredPaths(idx) : InSeq(Mark, path)

InitIndex ==
    /\ NewSession /\ NoCalls /\ NoChunker /\ NoStore /\ NoEvaluation /\ NoManager

\* get_indexer(key)
Index_new(key) ==
    /\ store' = get_indexer(key)
    /\ added' = << >>
    /\ asked' = NotAsked
    /\ hits' = << >>
    /\ outcome' = Returned("get_indexer", None)
    /\ UNCHANGED << sessionVars, chunker_runs, managerVars, concVars, chunkerVars, evalVars >>

\* store.add_documents(documents, metadata=metadata) with chunks not yet added.
Index_add_documents(batch) ==
    /\ Len(added) + Len(batch) <= MaxStored
    /\ \A i \in 1..Len(batch) : ~InSeq(batch[i].chunk, added)
    /\ store' = add_documents(store, [ i \in 1..Len(batch) |-> batch[i].chunk ],
                                     [ i \in 1..Len(batch) |-> batch[i].meta ])
    /\ added' = added \o [ i \in 1..Len(batch) |-> batch[i].chunk ]
    /\ asked' = NotAsked
    /\ hits' = << >>
    /\ outcome' = Returned("add_documents", None)
    /\ UNCHANGED << sessionVars, chunker_runs, managerVars, concVars, chunkerVars, evalVars >>

\* store.reset()
Index_reset ==
    /\ store' = reset(store)
    /\ added' = << >>
    /\ asked' = NotAsked
    /\ hits' = << >>
    /\ outcome' = Returned("reset", None)
    /\ UNCHANGED << sessionVars, chunker_runs, managerVars, concVars, chunkerVars, evalVars >>

\* hits = store.search(query, top_k=top_k)
Index_search(query, top_k) ==
    /\ hits' = Held(store, search(store, query, top_k))
    /\ asked' = [ query |-> query, top_k |-> top_k ]
    /\ outcome' = Returned("search", None)
    /\ UNCHANGED << sessionVars, chunker_runs, managerVars, concVars, chunkerVars, evalVars, store, added >>

\* The hits after the list an owner stands for has become `path`: every hit
\* that holds the list sees it.
HitsWithPath(held, owner, path) ==
    [ i \in 1..Len(held) |->
        IF held[i].shares = owner
        THEN [ held[i] EXCEPT !.metadata = SetKey(@, "section_path", path) ]
        ELSE held[i] ]

\* The caller runs hits[h].metadata["section_path"].append("x"), once on an
\* index.
MutateHitPath(h) ==
    /\ Has(hits[h].metadata, "section_path")
    /\ ~Marked(store)
    /\ ~InSeq(Mark, hits[h].metadata["section_path"])
    /\ IF hits[h].shares = NoOwner
       THEN /\ hits' = [ hits EXCEPT ![h].metadata =
                           SetKey(@, "section_path", Append(@["section_path"], Mark)) ]
            /\ store' = store
       ELSE /\ hits' = HitsWithPath(hits, hits[h].shares,
                                    Append(hits[h].metadata["section_path"], Mark))
            /\ store' = WithPath(store, hits[h].shares,
                                 Append(hits[h].metadata["section_path"], Mark))
    /\ outcome' = Returned("append", None)
    /\ UNCHANGED << sessionVars, chunker_runs, managerVars, concVars, chunkerVars, evalVars, added, asked >>

\* The caller runs hits[h].metadata["note"] = "x": an assignment to a key of
\* the hit's own dict.
MutateHitKey(h) ==
    /\ hits[h].metadata # EmptyDict
    /\ ~Has(hits[h].metadata, "note")
    /\ hits' = [ hits EXCEPT ![h].metadata = SetKey(@, "note", Mark) ]
    /\ outcome' = Returned("setitem", None)
    /\ UNCHANGED << sessionVars, chunker_runs, managerVars, concVars, chunkerVars, evalVars, store, added, asked >>

NextIndex ==
    \/ \E key \in IndexerKeys : Index_new(key)
    \/ \E batch \in Batches : Index_add_documents(batch)
    \/ Index_reset
    \/ \E query \in IndexQueries, top_k \in IndexTopKs : Index_search(query, top_k)
    \/ \E h \in 1..Len(hits) : MutateHitPath(h)
    \/ \E h \in 1..Len(hits) : MutateHitKey(h)

SpecIndex == InitIndex /\ [][NextIndex]_vars

\* ------------------------------------------------- the metrics on their own

\* The longest list of relevance flags.
MaxFlags == 4

\* The greatest number of relevant strings.
MaxRelevant == 3

\* The greatest k.
MaxK == 5

FlagLists == UNION { [ 1..n -> { 0, 1 } ] : n \in 0..MaxFlags }

\* The arguments of a call, before it is made.
InitMetrics ==
    /\ NewSession /\ NoCalls /\ NoChunker /\ NoStore /\ NoManager
    /\ evaluation = NotEvaluated
    /\ measured \in { [ NotMeasured EXCEPT !.relevance = relevance,
                                           !.total_relevant = total_relevant,
                                           !.k = k ] :
                        relevance \in FlagLists,
                        total_relevant \in 0..MaxRelevant,
                        k \in 0..MaxK }

\* The call fn(...) on the arguments at hand returns `value`.
Measure(fn, value) ==
    /\ measured.fn = None
    /\ measured' = [ measured EXCEPT !.fn = fn, !.value = value ]
    /\ outcome' = Returned(fn, None)
    /\ UNCHANGED << sessionVars, chunker_runs, managerVars, concVars, chunkerVars, storeVars, evaluation >>

Call_precision_at_k ==
    Measure("precision_at_k", precision_at_k(measured.relevance, measured.k))

Call_recall_at_k ==
    Measure("recall_at_k",
            recall_at_k(measured.relevance, measured.total_relevant, measured.k))

Call_mean_reciprocal_rank ==
    Measure("mean_reciprocal_rank", mean_reciprocal_rank(measured.relevance))

Call_ndcg_at_k ==
    Measure("ndcg_at_k", ndcg_at_k(measured.relevance, measured.k))

NextMetrics ==
    \/ Call_precision_at_k
    \/ Call_recall_at_k
    \/ Call_mean_reciprocal_rank
    \/ Call_ndcg_at_k

SpecMetrics == InitMetrics /\ [][NextMetrics]_vars

\* ----------------------------------------------- the embedding on its own

InitEmbed ==
    /\ NewSession /\ NoCalls /\ NoStore /\ NoEvaluation /\ NoManager
    /\ chunker = DefaultChunker
    /\ input_text \in Texts
    /\ scan = NotScanning

\* cosine_similarity(embed(text), embed(text))
Call_cosine_similarity ==
    /\ measured.fn = None
    /\ measured' = [ measured EXCEPT
                       !.fn = "cosine_similarity",
                       !.value = cosine_similarity(embed(input_text), embed(input_text)) ]
    /\ outcome' = Returned("cosine_similarity", None)
    /\ UNCHANGED << sessionVars, chunker_runs, managerVars, concVars, chunkerVars, storeVars, evaluation >>

NextEmbed == Call_cosine_similarity

SpecEmbed == InitEmbed /\ [][NextEmbed]_vars

\* ---------------------------------------- the evaluation of a session's index

\* evaluate_retrieval's default_top_k
default_top_k == 5

\* The most queries handed to one evaluation.
MaxQueries == 2

\* session.py's _compute_relevance_flags(retrieved, relevant)
_compute_relevance_flags(retrieved, relevant) ==
    IF Len(retrieved) = 0 THEN << >>
    ELSE IF Len(relevant) = 0 THEN [ i \in 1..Len(retrieved) |-> 0 ]
    ELSE [ i \in 1..Len(retrieved) |->
             IF \E r \in 1..Len(relevant) :
                    /\ Len(relevant[r]) > 0
                    /\ Contains(Lower(retrieved[i]), Lower(relevant[r]))
             THEN 1 ELSE 0 ]

\* evaluate_chunking_indexing.py's _tokenise(text)
_tokenise(lowered) == { TokenAt(lowered, i) : i \in TokenStarts(lowered) }

\* The candidates the inner loop of the script's _compute_relevance_flags
\* would stop at for a chunk: not matched yet, not empty, and contained in
\* the chunk or sharing at least 0.6 of their tokens with it.
ScriptCandidates(chunk_lower, relevant, matched) ==
    { idx \in 1..Len(relevant) :
        /\ idx \notin matched
        /\ Len(relevant[idx]) > 0
        /\ \/ Contains(chunk_lower, Lower(relevant[idx]))
           \/ /\ _tokenise(Lower(relevant[idx])) # { }
              /\ 5 * Cardinality(_tokenise(chunk_lower) \cap _tokenise(Lower(relevant[idx])))
                     >= 3 * Cardinality(_tokenise(Lower(relevant[idx]))) }

\* The loop of the script's _compute_relevance_flags over the retrieved
\* chunks from chunk i on, with the relevant strings matched so far.
RECURSIVE ScriptFlagsFrom(_, _, _, _)
ScriptFlagsFrom(retrieved, relevant, i, matched) ==
    IF i > Len(retrieved) THEN << >>
    ELSE LET found == ScriptCandidates(Lower(retrieved[i]), relevant, matched)
         IN  IF found = { }
             THEN << 0 >> \o ScriptFlagsFrom(retrieved, relevant, i + 1, matched)
             ELSE << 1 >> \o ScriptFlagsFrom(retrieved, relevant, i + 1,
                      matched \cup { CHOOSE idx \in found : \A other \in found : idx <= other })

\* evaluate_chunking_indexing.py's _compute_relevance_flags(retrieved, relevant)
Script_compute_relevance_flags(retrieved, relevant) ==
    ScriptFlagsFrom(retrieved, relevant, 1, { })

\* The query entries at hand: "pay" with the relevant string "pay" and no
\* top_k, a blank query, and " pay" with two relevant strings and top_k 1.
\* top_k 0 stands for a missing one, `entry.get("top_k") or default_top_k`
\* treating both alike.
QueryEntries ==
    { [ query |-> << "p", "a", "y" >>,
        relevant_chunks |-> << << "p", "a", "y" >> >>,
        top_k |-> 0 ],
      [ query |-> << " ", " " >>,
        relevant_chunks |-> << << "p", "a", "y" >> >>,
        top_k |-> 0 ],
      [ query |-> << " ", "p", "a", "y" >>,
        relevant_chunks |-> << << "p", "a", "y", " ", "n", "o", "w" >>,
                               << "z", "z", "z" >> >>,
        top_k |-> 1 ] }

QueryLists == UNION { [ 1..n -> QueryEntries ] : n \in 0..MaxQueries }

\* [result.chunk for result in results]
Retrieved(idx, query_text, top_k) ==
    [ i \in 1..Len(search(idx, query_text, top_k)) |->
        search(idx, query_text, top_k)[i].chunk ]

\* One pass of the loop over the queries: the locals it derives and the
\* per-query entry it appends.
Evaluated(idx, query_text, relevant_chunks, top_k, flags) ==
    [ retrieved |-> Retrieved(idx, query_text, top_k),
      relevant  |-> relevant_chunks,
      flags     |-> flags,
      entry     |-> [ query          |-> query_text,
                      top_k          |-> top_k,
                      precision_at_k |-> precision_at_k(flags, top_k),
                      recall_at_k    |-> recall_at_k(flags, Len(relevant_chunks), top_k),
                      mrr            |-> mean_reciprocal_rank(flags),
                      ndcg_at_k      |-> ndcg_at_k(flags, top_k) ] ]

\* int(entry.get("top_k") or default_top_k) / spec.top_k or default_top_k
TopKOf(entry) == IF entry.top_k = 0 THEN default_top_k ELSE entry.top_k

\* len(per_query) + 1
CountPlusOne(passes) == Len(passes) + 1

\* count = len(per_query_results) or 1
EvalCount(passes) == IF Len(passes) = 0 THEN 1 ELSE Len(passes)

\* sum(aggregate) / count
Mean(values, count) == Ratio(RatioSum(values).num, RatioSum(values).den * count)

\* The dict both evaluations return, cut to the metrics and per_query.
EvaluationResult(passes) ==
    [ precision_at_k |-> Mean([ i \in 1..Len(passes) |-> passes[i].entry.precision_at_k ],
                              EvalCount(passes)),
      recall_at_k    |-> Mean([ i \in 1..Len(passes) |-> passes[i].entry.recall_at_k ],
                              EvalCount(passes)),
      mrr            |-> Mean([ i \in 1..Len(passes) |-> passes[i].entry.mrr ],
                              EvalCount(passes)),
      ndcg_at_k      |-> Mean([ i \in 1..Len(passes) |-> passes[i].entry.ndcg_at_k ],
                              EvalCount(passes)),
      per_query      |-> [ i \in 1..Len(passes) |-> passes[i].entry ] ]

\* The dict returned for `not queries`.
EmptyEvaluation ==
    [ precision_at_k |-> Zero, recall_at_k |-> Zero, mrr |-> Zero, ndcg_at_k |-> Zero,
      per_query |-> << >> ]

\* The passes of Session.evaluate_retrieval's loop: entries with a blank
\* query are skipped.
SessionPasses(idx, queries) ==
    LET kept == SelectSeq(queries, LAMBDA entry : Len(Strip(entry.query)) > 0)
    IN  [ i \in 1..Len(kept) |->
            Evaluated(idx, Strip(kept[i].query), kept[i].relevant_chunks, TopKOf(kept[i]),
                      _compute_relevance_flags(
                          Retrieved(idx, Strip(kept[i].query), TopKOf(kept[i])),
                          kept[i].relevant_chunks)) ]

\* The passes of the script's _evaluate_index: every query is searched as
\* it is.
ScriptPasses(idx, queries) ==
    [ i \in 1..Len(queries) |->
        Evaluated(idx, queries[i].query, queries[i].relevant_chunks, TopKOf(queries[i]),
                  Script_compute_relevance_flags(
                      Retrieved(idx, queries[i].query, TopKOf(queries[i])),
                      queries[i].relevant_chunks)) ]

\* What a finished evaluation leaves: who ran it, its queries, the locals of
\* its passes and the dict it returned.
EvaluationOf(by, queries, passes) ==
    [ by       |-> by,
      queries  |-> queries,
      derived  |-> [ i \in 1..Len(passes) |->
                       [ retrieved |-> passes[i].retrieved,
                         relevant  |-> passes[i].relevant,
                         flags     |-> passes[i].flags ] ],
      returned |-> IF Len(queries) = 0 THEN EmptyEvaluation ELSE EvaluationResult(passes) ]

\* The index after the searches of the loop of evaluate_retrieval over
\* queries[i..].
RECURSIVE SearchedThrough(_, _, _)
SearchedThrough(idx, queries, i) ==
    IF i > Len(queries) THEN idx
    ELSE IF Len(Strip(queries[i].query)) = 0 THEN SearchedThrough(idx, queries, i + 1)
    ELSE SearchedThrough(
             StoredAfterSearch(idx, Strip(queries[i].query), TopKOf(queries[i])),
             queries, i + 1)

\* Session.evaluate_retrieval(queries), with no latency samples
evaluate_retrieval(queries) ==
    /\ evaluation = NotEvaluated
    /\ evaluation' = EvaluationOf("evaluate_retrieval", queries, SessionPasses(index, queries))
    /\ outcome' = Returned("evaluate_retrieval", None)
    /\ index' = SearchedThrough(index, queries, 1)
    /\ UNCHANGED << attachments, chunking_strategy, indexing_strategy, state >>
    /\ UNCHANGED << chunker_runs, managerVars, concVars, chunkerVars, storeVars, measured >>

\* The script's _evaluate_index(indexer, queries, default_top_k), on an
\* indexer that holds the chunks of the session's index.
_evaluate_index(queries) ==
    /\ evaluation = NotEvaluated
    /\ evaluation' = EvaluationOf("_evaluate_index", queries, ScriptPasses(index, queries))
    /\ outcome' = Returned("_evaluate_index", None)
    /\ UNCHANGED << sessionVars, chunker_runs, managerVars, concVars, chunkerVars, storeVars, measured >>

\* The caller drops the dict an evaluation returned.
Discard ==
    /\ evaluation # NotEvaluated
    /\ evaluation' = NotEvaluated
    /\ outcome' = Returned("del", None)
    /\ UNCHANGED << sessionVars, chunker_runs, managerVars, concVars, chunkerVars, storeVars, measured >>

\* The calls of a session and the evaluations of its index.  One evaluation
\* is held at a time: its dict is dropped before the session is called again,
\* the session's calls neither reading nor changing it.
NextEval ==
    \/ evaluation = NotEvaluated /\ Next
    \/ \E queries \in QueryLists : evaluate_retrieval(queries)
    \/ \E queries \in QueryLists : _evaluate_index(queries)
    \/ Discard

SpecEval == Init /\ [][NextEval]_vars

\* ------------------------------------------------------ the session manager

MaxSessions == 2

MaxAttached == 1

\* The session ids secrets.token_hex(16) draws.
SessionIds == 1..MaxSessions

\* The places an index object can live at: one more than the sessions can
\* hold, so that a new object can be made while every session holds one.
Refs == 1..(MaxSessions + 1)

\* One index object per registered key, handed to every caller.
RegistryIndexObject(held, key) ==
    CHOOSE r \in 1..Len(available_indexers) : available_indexers[r] = key

\* get_indexer(key) as an object: factory() makes a new one, apart from every
\* object that is held.
NewIndexObject(held, key) == CHOOSE r \in Refs : r \notin held

\* The index objects the sessions other than sid hold.  The object sid held
\* is dropped when self._index is assigned, and its place is free again.
HeldBeside(sid) == { sessions[o]._index : o \in DOMAIN sessions \ { sid } }

SessionObject(atts, chunking, indexing, st) ==
    [ attachments       |-> atts,
      chunking_strategy |-> chunking,
      indexing_strategy |-> indexing,
      state             |-> st,
      _index            |-> 0 ]

\* The sessions once session sid is the object s and holds the index object
\* ref.
WithSession(sid, s, ref) ==
    [ o \in DOMAIN sessions \cup { sid } |->
        IF o = sid THEN [ s EXCEPT !._index = ref ] ELSE sessions[o] ]

\* The index objects once `content` was written into the object ref; the
\* objects no session of `after` holds are gone.
WithObject(after, ref, content) ==
    [ r \in { after[o]._index : o \in DOMAIN after } |->
        IF r = ref THEN content ELSE objects[r] ]

\* _rebuild_index() of the session object s, known to the manager as sid: the
\* index goes into the object get_indexer hands out.
Managed_rebuild_index(sid, s, ref) ==
    /\ sessions' = WithSession(sid,
           [ s EXCEPT !.state = [ @ EXCEPT !.index_size =
                 Len(CollectDocuments(s.attachments, s.chunking_strategy)) ] ],
           ref)
    /\ objects' = WithObject(WithSession(sid, s, ref), ref,
                      RebuiltIndex(s.attachments, s.chunking_strategy, s.indexing_strategy))

\* _refresh_attachment_state() then _rebuild_index() of the session object s.
Managed_refresh_and_rebuild(sid, s) ==
    Managed_rebuild_index(sid,
        [ s EXCEPT !.state = RefreshedState(s.state, s.attachments,
                                            s.chunking_strategy, s.indexing_strategy) ],
        NewIndexObject(HeldBeside(sid), s.indexing_strategy))

\* What the session variables and the other objects of the module are left
\* as by the requests of the manager.
beside == << sessionVars, chunker_runs, concVars, chunkerVars, storeVars, evalVars >>

\* SessionManager.create_session(): Session(session_id) and its __post_init__.
create_session(sid) ==
    /\ sid \notin DOMAIN sessions
    /\ Managed_refresh_and_rebuild(sid,
           SessionObject(<< >>, "fixed", "none",
                         [ index_size        |-> 0,
                           attachments       |-> << >>,
                           chunking_strategy |-> "fixed",
                           indexing_strategy |-> "none" ]))
    /\ target' = sid
    /\ outcome' = Returned("create_session", sid)
    /\ UNCHANGED beside

\* SessionManager.get_session(session_id) for an id the manager does not hold.
KeyError(op, session_id) ==
    [ op |-> op, raised |-> "KeyError", names |-> session_id ]

get_session_unknown(sid) ==
    /\ sid \notin DOMAIN sessions
    /\ target' = sid
    /\ outcome' = KeyError("get_session", sid)
    /\ UNCHANGED << sessions, objects >>
    /\ UNCHANGED beside

\* SessionManager.delete_session(session_id)
delete_session(sid) ==
    /\ sessions' = [ o \in DOMAIN sessions \ { sid } |-> sessions[o] ]
    /\ objects' = [ r \in { sessions[o]._index : o \in DOMAIN sessions \ { sid } } |->
                      objects[r] ]
    /\ target' = sid
    /\ outcome' = Returned("delete_session", None)
    /\ UNCHANGED beside

\* SessionManager.clear()
clear ==
    /\ sessions' = << >>
    /\ objects' = << >>
    /\ target' = 0
    /\ outcome' = Returned("clear", None)
    /\ UNCHANGED beside

AttachedTo(s) == { s.attachments[i].attachment_id : i \in 1..Len(s.attachments) }

\* get_session(sid).add_attachment(...)
Managed_add_attachment(sid, upload) ==
    /\ sid \in DOMAIN sessions
    /\ upload.attachment_id \notin AttachedTo(sessions[sid])
    /\ Len(sessions[sid].attachments) < MaxAttached
    /\ Managed_refresh_and_rebuild(sid,
           [ sessions[sid] EXCEPT !.attachments =
               Append(@, NewAttachment(upload, ChunkMap(upload.text),
                                       sessions[sid].chunking_strategy)) ])
    /\ target' = sid
    /\ outcome' = Returned("add_attachment", upload.attachment_id)
    /\ UNCHANGED beside

\* get_session(sid).remove_attachment(attachment_id)
Managed_remove_attachment(sid, attachment_id) ==
    /\ sid \in DOMAIN sessions
    /\ target' = sid
    /\ UNCHANGED beside
    /\ IF attachment_id \notin AttachedTo(sessions[sid])
       THEN /\ outcome' = Returned("remove_attachment", FALSE)
            /\ UNCHANGED << sessions, objects >>
       ELSE /\ Managed_refresh_and_rebuild(sid,
                   [ sessions[sid] EXCEPT !.attachments =
                       SelectSeq(@, LAMBDA a : a.attachment_id # attachment_id) ])
            /\ outcome' = Returned("remove_attachment", TRUE)

\* get_session(sid).set_chunking_strategy(strategy)
Managed_set_chunking_strategy(sid, strategy) ==
    /\ sid \in DOMAIN sessions
    /\ target' = sid
    /\ UNCHANGED beside
    /\ IF strategy = sessions[sid].chunking_strategy
       THEN /\ outcome' = Returned("set_chunking_strategy", None)
            /\ UNCHANGED << sessions, objects >>
       ELSE IF strategy \notin ChunkerKeys
       THEN /\ outcome' = ValueError("set_chunking_strategy", strategy)
            /\ UNCHANGED << sessions, objects >>
       ELSE /\ Managed_refresh_and_rebuild(sid,
                   [ sessions[sid] EXCEPT !.chunking_strategy = strategy,
                                          !.attachments = Rechunked(@, strategy) ])
            /\ outcome' = Returned("set_chunking_strategy", None)

\* get_session(sid).set_indexing_strategy(strategy)
Managed_set_indexing_strategy(sid, strategy) ==
    /\ sid \in DOMAIN sessions
    /\ target' = sid
    /\ UNCHANGED beside
    /\ IF strategy = sessions[sid].indexing_strategy
       THEN /\ outcome' = Returned("set_indexing_strategy", None)
            /\ UNCHANGED << sessions, objects >>
       ELSE IF strategy \notin IndexerKeys
       THEN /\ outcome' = ValueError("set_indexing_strategy", strategy)
            /\ UNCHANGED << sessions, objects >>
       ELSE /\ Managed_rebuild_index(sid,
                   [ sessions[sid] EXCEPT !.indexing_strategy = strategy ],
                   NewIndexObject(HeldBeside(sid), strategy))
            /\ outcome' = Returned("set_indexing_strategy", None)

\* get_session(sid).search(query, top_k=top_k)
Managed_search(sid, query, top_k) ==
    /\ sid \in DOMAIN sessions
    /\ target' = sid
    /\ outcome' = Searched(query, top_k,
                           search(objects[sessions[sid]._index], query, top_k))
    /\ objects' = [ objects EXCEPT ![sessions[sid]._index] =
                      StoredAfterSearch(@, query, top_k) ]
    /\ UNCHANGED sessions
    /\ UNCHANGED beside

\* get_session(sid).evaluate_retrieval(queries)
Managed_evaluate_retrieval(sid, queries) ==
    /\ sid \in DOMAIN sessions
    /\ target' = sid
    /\ outcome' = Returned("evaluate_retrieval",
                      EvaluationOf("evaluate_retrieval", queries,
                          SessionPasses(objects[sessions[sid]._index], queries)).returned)
    /\ objects' = [ objects EXCEPT ![sessions[sid]._index] =
                      SearchedThrough(@, queries, 1) ]
    /\ UNCHANGED sessions
    /\ UNCHANGED beside

\* The inputs of the requests: the strategies a session starts under and one
\* other of each kind, an unregistered key, the query that has hits, and the
\* query lists of one entry whose query is not blank.
ManagedChunkingInputs == { "fixed", "semantic", "bogus" }

ManagedIndexingInputs == { "none", "faiss", "bogus" }

ManagedQueries == { << "p", "a", "y" >> }

ManagedQueryLists ==
    { queries \in QueryLists : Len(queries) = 1 /\ Len(Strip(queries[1].query)) > 0 }

NextManager ==
    \/ \E sid \in SessionIds : create_session(sid)
    \/ \E sid \in SessionIds : get_session_unknown(sid)
    \/ \E sid \in SessionIds : delete_session(sid)
    \/ clear
    \/ \E sid \in SessionIds, upload \in Uploads : Managed_add_attachment(sid, upload)
    \/ \E sid \in SessionIds, id \in AttachmentIds : Managed_remove_attachment(sid, id)
    \/ \E sid \in SessionIds, key \in ManagedChunkingInputs :
           Managed_set_chunking_strategy(sid, key)
    \/ \E sid \in SessionIds, key \in ManagedIndexingInputs :
           Managed_set_indexing_strategy(sid, key)
    \/ \E sid \in SessionIds, query \in ManagedQueries, top_k \in TopKs :
           Managed_search(sid, query, top_k)
    \/ \E sid \in SessionIds, queries \in ManagedQueryLists :
           Managed_evaluate_retrieval(sid, queries)

SpecManager == Init /\ [][NextManager]_vars

\* ------------------------------------------------------------- properties

\* How often x occurs in a sequence.
Count(seq, x) == Cardinality({ i \in 1..Len(seq) : seq[i] = x })

\* Two sequences hold the same elements, each as often.
SameBag(a, b) ==
    /\ Len(a) = Len(b)
    /\ \A i \in 1..Len(a) : Count(a, a[i]) = Count(b, a[i])

\* The entries an index holds, each as << document, chunk text >>.
IndexEntries(idx) ==
    CASE idx.name = "none" ->
             [ i \in 1..Len(idx._documents) |->
                 << idx._documents[i].meta["document_id"], idx._documents[i].chunk >> ]
      [] idx.name = "faiss" ->
             [ i \in 1..Len(idx._vectors) |->
                 << idx._vectors[i].meta["document_id"], idx._vectors[i].chunk >> ]
      [] idx.name = "llama_index" ->
             Flatten([ d \in 1..Len(idx._documents) |->
                 Flatten([ k \in 1..Len(idx._documents[d].sections) |->
                     [ i \in 1..Len(idx._documents[d].sections[k].chunks) |->
                         << idx._documents[d].doc_id,
                            idx._documents[d].sections[k].chunks[i] >> ] ]) ])

\* The chunks the chunker of a strategy makes of the attached documents, each
\* as << document, chunk text >>.
ChunksOfAttached(atts, strategy) ==
    Flatten([ a \in 1..Len(atts) |->
        [ i \in 1..Len(ChunkMap(atts[a].text)[strategy]) |->
            << atts[a].attachment_id, ChunkMap(atts[a].text)[strategy][i] >> ] ])

\* C1: between two sequential operations the active index is an instance of
\* the active indexing strategy, holds exactly one entry per chunk that the
\* active chunking strategy makes of every attached document, and
\* state["index_size"] is the number of those chunks.
C1_IndexMatchesAttachments ==
    /\ index.name = indexing_strategy
    /\ SameBag(IndexEntries(index), ChunksOfAttached(attachments, chunking_strategy))
    /\ state.index_size = Len(ChunksOfAttached(attachments, chunking_strategy))

\* Two documents were attached, one was removed again, and the strategies
\* were switched: the hierarchical index holds the two semantic chunks of the
\* report.
C1_Witness ==
    /\ Len(attachments) = 1
    /\ attachments[1].attachment_id = "a2"
    /\ chunking_strategy = "semantic"
    /\ indexing_strategy = "llama_index"
    /\ state.index_size = 2
    /\ Len(IndexEntries(index)) = 2
    /\ outcome = Returned("remove_attachment", TRUE)

\* C4: a call of set_chunking_strategy or set_indexing_strategy with a key
\* that is not registered raises an error that names the key and leaves the
\* attachments, both strategies, the index and the state as they were.
C4_UnknownKeyRejected ==
    [][ /\ \A key \in ChunkingInputs \ ChunkerKeys :
              set_chunking_strategy(key)
                  => /\ outcome' = ValueError("set_chunking_strategy", key)
                     /\ UNCHANGED sessionVars
        /\ \A key \in IndexingInputs \ IndexerKeys :
              set_indexing_strategy(key)
                  => /\ outcome' = ValueError("set_indexing_strategy", key)
                     /\ UNCHANGED sessionVars ]_vars

\* An unknown chunking key was just rejected by a session that holds both
\* documents under strategies other than the defaults.
C4_Witness ==
    /\ outcome = ValueError("set_chunking_strategy", "bogus")
    /\ Len(attachments) = 2
    /\ chunking_strategy = "semantic"
    /\ indexing_strategy = "faiss"

\* C5: the chunker of a strategy runs at most once on an attachment, and a
\* chunk list stored in an attachment's cache is the same after every step
\* in which the attachment stays attached.
C5_ChunkedOnce ==
    [][ /\ \A id \in AttachmentIds, key \in ChunkerKeys : chunker_runs'[id][key] <= 1
        /\ \A i \in 1..Len(attachments), j \in 1..Len(attachments') :
              attachments[i].attachment_id = attachments'[j].attachment_id
                  => \A key \in DOMAIN attachments[i].chunks_by_strategy :
                        /\ key \in DOMAIN attachments'[j].chunks_by_strategy
                        /\ attachments'[j].chunks_by_strategy[key]
                               = attachments[i].chunks_by_strategy[key] ]_vars

\* The strategy was just set back to the default with both documents
\* attached, their `chunks` following it, and every chunker has run once on
\* each.
C5_Witness ==
    /\ outcome = Returned("set_chunking_strategy", None)
    /\ chunking_strategy = "fixed"
    /\ state.chunking_strategy = "fixed"
    /\ Len(attachments) = 2
    /\ \A i \in 1..Len(attachments) :
          /\ attachments[i].chunks = attachments[i].chunks_by_strategy["fixed"]
          /\ \A key \in ChunkerKeys : chunker_runs[attachments[i].attachment_id][key] = 1

\* The error the specification names for a chunker that cannot be configured.
ConfigurationError == [ op |-> "FixedSizeChunker", raised |-> "ConfigurationError" ]

\* C6: constructing a FixedSizeChunker with overlap >= chunk_size raises
\* ConfigurationError and yields no chunker, before any text is chunked.
C6_OverlapRejected ==
    [][ \A size \in Sizes, lap \in Overlaps :
            (lap >= size /\ FixedSizeChunker_init(size, lap))
                => (outcome' = ConfigurationError /\ chunker' = chunker) ]_vars

\* chunks[1] followed by every later chunk without its first `lap`
\* characters.
RECURSIVE Reassembled(_, _, _)
Reassembled(chunks, lap, i) ==
    IF i > Len(chunks) THEN << >>
    ELSE (IF i = 1 THEN chunks[i] ELSE SubSeq(chunks[i], lap + 1, Len(chunks[i])))
             \o Reassembled(chunks, lap, i + 1)

\* What C7 states of the chunks made of a normalized text.
FixedWindowLaw(chunks, cleaned, size, lap) ==
    /\ Reassembled(chunks, lap, 1) = cleaned
    /\ \A i \in 1..Len(chunks) :
          /\ chunks[i] = PySlice(cleaned, (i - 1) * (size - lap),
                                          (i - 1) * (size - lap) + size)
          /\ Len(chunks[i]) >= 1
          /\ i < Len(chunks) => Len(chunks[i]) = size
    /\ Len(cleaned) > 0 => Len(chunks) >= 1

\* C7: with 0 <= overlap < chunk_size, the first chunk followed by each later
\* chunk without its first `overlap` characters is the normalized text;
\* chunk i starts (i - 1) * (chunk_size - overlap) characters in; every chunk
\* but the last has chunk_size characters; the last one is emitted, and is
\* not empty, when it is shorter.
C7_FixedWindows ==
    (/\ outcome.op = "chunk"
     /\ 0 <= chunker.overlap
     /\ chunker.overlap < chunker.chunk_size)
        => FixedWindowLaw(outcome.returned, _normalise_text(input_text),
                          chunker.chunk_size, chunker.overlap)

\* A text with a blank to strip was cut into a window of three characters
\* and a last, shorter one that overlaps it by one.
C7_Witness ==
    /\ outcome.op = "chunk"
    /\ chunker = [ chunk_size |-> 3, overlap |-> 1 ]
    /\ Len(input_text) = 5
    /\ Len(_normalise_text(input_text)) = 4
    /\ Len(outcome.returned) = 2
    /\ Len(outcome.returned[2]) = 2

\* The place of a chunk in the order the chunks were added.
AddedAt(chunk) == FirstIndex(added, LAMBDA c : c = chunk)

\* C8: the hits of a search, of any of the three indexes, are in
\* non-increasing order of score, and of two hits with the same score the
\* one whose chunk was added first comes first.
C8_HitsOrdered ==
    \A i \in 1..Len(hits), j \in 1..Len(hits) :
        i < j => /\ ~ScoreLess(hits[i].score, hits[j].score)
                 /\ hits[i].score = hits[j].score
                        => AddedAt(hits[i].chunk) < AddedAt(hits[j].chunk)

\* C9: whatever a caller changes in the metadata of a hit, its section_path
\* list included, the entries of the index and the result of every later
\* search stay what they were.
C9_HitsShareNothing ==
    [][ \A h \in 1..Len(hits) :
            (MutateHitPath(h) \/ MutateHitKey(h))
                => /\ store' = store
                   /\ \A query \in IndexQueries, top_k \in IndexTopKs :
                         search(store', query, top_k) = search(store, query, top_k) ]_vars

\* The section nodes of a LlamaIndexStub as << document, section >>, in the
\* order search visits them.
SectionNodes(idx) ==
    Flatten([ d \in 1..Len(idx._documents) |->
                [ k \in 1..Len(idx._documents[d].sections) |-> << d, k >> ] ])

\* The cosine similarity of a query and the chunks of a section node joined
\* by newlines.
SectionSimilarity(idx, query, node) ==
    cosine_similarity(embed(query),
                      embed(Join(idx._documents[node[1]].sections[node[2]].chunks, NL)))

\* Section node number q is one of the top_k by similarity to the query:
\* its similarity is positive, and fewer than top_k nodes have a greater
\* one or the same one and an earlier place.
AmongTopSections(idx, query, top_k, nodes, q) ==
    /\ ScorePositive(SectionSimilarity(idx, query, nodes[q]))
    /\ Cardinality({ p \in 1..Len(nodes) :
            \/ ScoreLess(SectionSimilarity(idx, query, nodes[q]),
                         SectionSimilarity(idx, query, nodes[p]))
            \/ /\ SectionSimilarity(idx, query, nodes[p])
                      = SectionSimilarity(idx, query, nodes[q])
               /\ p < q }) < top_k

\* C10: every hit of a search of the hierarchical index is a chunk of one of
\* the top_k section nodes by similarity of the query to the node's joined
\* chunks; no chunk of another section is returned, whatever its own score.
C10_OnlyTopSections ==
    (store.name = "llama_index" /\ asked # NotAsked)
        => \A h \in 1..Len(hits) :
              \E q \in 1..Len(SectionNodes(store)) :
                  /\ InSeq(hits[h].chunk,
                           store._documents[SectionNodes(store)[q][1]]
                               .sections[SectionNodes(store)[q][2]].chunks)
                  /\ AmongTopSections(store, asked.query, asked.top_k,
                                      SectionNodes(store), q)

\* Sections Intro and Pricing are indexed and "a c" was asked with top_k = 1:
\* the hit is "a" of Pricing, though "a c b" of Intro scores higher as a
\* chunk.
C10_Witness ==
    /\ store.name = "llama_index"
    /\ Len(added) = 3
    /\ asked = [ query |-> << "a", " ", "c" >>, top_k |-> 1 ]
    /\ Len(hits) = 1
    /\ hits[1].chunk = << "a" >>
    /\ hits[1].metadata["section_heading"] = PricingHeading
    /\ InSeq(<< "a", " ", "c", " ", "b" >>, added)
    /\ ScoreLess(hits[1].score,
                 cosine_similarity(embed(asked.query), embed(<< "a", " ", "c", " ", "b" >>)))

\* C2: a search that runs while another thread rebuilds the index returns
\* what its query returns on the complete index from before the rebuild or on
\* the complete index after it, never the result of an empty or half-filled
\* index.
C2_SearchSeesCompleteIndex ==
    [][ \A t \in Threads :
            Search_run(t) => outcome'.returned \in threads[t].allowed ]_vars

\* C3: once every call of the two threads has returned, the active index is
\* what a fresh rebuild from the attachments and strategies of the session
\* gives, and state["index_size"] is its number of chunks.
C3_QuiescentIndexIsFresh ==
    (\A t \in Threads : threads[t].pc = "idle")
        => /\ index = RebuiltIndex(attachments, chunking_strategy, indexing_strategy)
           /\ state.index_size
                  = Len(CollectDocuments(attachments, chunking_strategy))

\* The hits of one section_rank among the hits.
SameSection(h) ==
    { j \in 1..Len(hits) :
        _ensure_section_rank(hits[j].metadata) = _ensure_section_rank(hits[h].metadata) }

\* C11: every hit a FaissLikeIndex search returns carries a section_score,
\* which is the greatest score among the returned hits of its section_rank
\* and so is not below the hit's own score.
C11_SectionScoreIsVisibleMax ==
    (store.name = "faiss" /\ asked # NotAsked)
        => \A h \in 1..Len(hits) :
              /\ Has(hits[h].metadata, "section_score")
              /\ hits[h].metadata["section_score"]
                     = MaxScore({ hits[j].score : j \in SameSection(h) })
              /\ ~ScoreLess(hits[h].metadata["section_score"], hits[h].score)

\* The tokens two texts have in common.
SharedTokens(a, b) == DOMAIN embed(a) \cap DOMAIN embed(b)

\* C12: every hit of a FaissLikeIndex or LlamaIndexStub search has a score
\* greater than 0 and shares a token with the query; a chunk that shares none
\* is not returned, also when fewer than top_k hits remain.
C12_HitsScorePositive ==
    (store.name \in { "faiss", "llama_index" } /\ asked # NotAsked)
        => \A h \in 1..Len(hits) :
              /\ ScorePositive(hits[h].score)
              /\ SharedTokens(hits[h].chunk, asked.query) # { }

\* "a" and "c" are indexed and "a" was asked with top_k = 2: the one hit is
\* "a", and "c", which shares no token with the query, does not fill the
\* second place.
C12_Witness ==
    /\ store.name \in { "faiss", "llama_index" }
    /\ added = << << "a" >>, << "c" >> >>
    /\ asked = [ query |-> << "a" >>, top_k |-> 2 ]
    /\ Len(hits) = 1
    /\ hits[1].chunk = << "a" >>
    /\ SharedTokens(<< "c" >>, asked.query) = { }

\* The added chunks whose lowercased text contains the lowercased query, in
\* the order they were added.
Containing(query) ==
    SelectSeq(added, LAMBDA c : Contains(Lower(c), Lower(query)))

\* C13: a NullIndex search for a query returns the first top_k added chunks
\* whose lowercased text contains the lowercased query, in the order they
\* were added, each with score 1.0 and section_score 1.0, and nothing when no
\* chunk contains the query.
C13_LinearScan ==
    (store.name = "none" /\ outcome.op = "search" /\ Len(asked.query) > 0)
        => /\ Len(hits) = Min(asked.top_k, Len(Containing(asked.query)))
           /\ \A h \in 1..Len(hits) :
                 /\ hits[h].chunk = Containing(asked.query)[h]
                 /\ hits[h].score = ScoreOne
                 /\ Has(hits[h].metadata, "section_score")
                 /\ hits[h].metadata["section_score"] = ScoreOne

\* C14: a search of the session with the empty query, or while the active
\* index of whichever strategy holds no entry (on a new session, after the
\* reset of a rebuild, after the last attachment was removed), returns the
\* empty list.
C14_EmptySearchIsEmpty ==
    (outcome.op = "search" /\ (Len(outcome.query) = 0 \/ Len(IndexEntries(index)) = 0))
        => outcome.returned = << >>

\* The session was switched to another index, holds no attachment, and a
\* search for "pay" returned nothing.
C14_Witness ==
    /\ outcome.op = "search"
    /\ Len(outcome.query) > 0
    /\ attachments = << >>
    /\ indexing_strategy = "llama_index"
    /\ index = reset(get_indexer("llama_index"))
    /\ outcome.returned = << >>

\* The sum of the first k relevance flags.
FirstFlags(relevance, k) == SumSeq(SubSeq(relevance, 1, Min(k, Len(relevance))))

\* C16: precision_at_k is the sum of the first k relevance flags divided by
\* k for every k > 0, also when the list has fewer than k flags, and 0 for
\* k = 0.
C16_PrecisionDividesByK ==
    measured.fn = "precision_at_k"
        => measured.value
               = IF measured.k = 0 THEN Zero
                 ELSE Ratio(FirstFlags(measured.relevance, measured.k), measured.k)

\* C18: for the same relevance flags and the same total_relevant, recall_at_k
\* at a smaller k is never above recall_at_k at a greater k, and recall_at_k
\* is 0 whenever total_relevant is 0.
C18_RecallMonotone ==
    measured.fn = "recall_at_k"
        => /\ \A j \in 0..measured.k :
                 RatioLeq(recall_at_k(measured.relevance, measured.total_relevant, j),
                          measured.value)
           /\ measured.total_relevant = 0 => measured.value = Zero

\* Of the flags 0, 1, 1 with two relevant strings the recall is 1/2 at k = 2
\* and 1 at k = 3.
C18_Witness ==
    /\ measured.fn = "recall_at_k"
    /\ measured.relevance = << 0, 1, 1 >>
    /\ measured.total_relevant = 2
    /\ measured.k = 3
    /\ measured.value = One
    /\ recall_at_k(measured.relevance, measured.total_relevant, 2) = Ratio(1, 2)

\* The text holds a token of _TOKEN_PATTERN.
HasToken(t) == TokenStarts(Lower(t)) # { }

\* C20 as stated: for every non-empty text the cosine similarity of its
\* embedding with itself is 1.0.
C20_SelfSimilarityIsOne ==
    (measured.fn = "cosine_similarity" /\ Len(input_text) > 0)
        => measured.value = ScoreOne

\* C20: for every text that holds a token the cosine similarity of its
\* embedding with itself is 1, the squared weights of the embedding adding
\* up to 1; for a text without a token it is 0.
C20_SelfSimilarityOfTokens ==
    measured.fn = "cosine_similarity"
        => measured.value = IF HasToken(input_text) THEN ScoreOne ELSE ScoreZero

\* "a a b": the counts 2 and 1 are normalised and the similarity is 1.
C20_Witness ==
    /\ measured.fn = "cosine_similarity"
    /\ input_text = << "a", " ", "a", " ", "b" >>
    /\ embed(input_text) = (<< "a" >> :> 2) @@ (<< "b" >> :> 1)
    /\ measured.value = ScoreOne

\* C15: in the relevance flags an evaluation derives for a query, of the
\* session or of the experiment script, every relevant string is credited to
\* one retrieved chunk at most, so the flags add up to no more than the
\* number of relevant strings.
C15_FlagsWithinRelevant ==
    \A i \in 1..Len(evaluation.derived) :
        SumSeq(evaluation.derived[i].flags) <= Len(evaluation.derived[i].relevant)

\* The metrics of a per-query entry or of the aggregate.
MetricsOf(entry) ==
    { entry.precision_at_k, entry.recall_at_k, entry.mrr, entry.ndcg_at_k }

\* C17: every precision, recall, MRR and NDCG value Session.evaluate_retrieval
\* reports, per query and in the aggregate, is at least 0 and at most 1.
C17_MetricsInUnitInterval ==
    (evaluation.by = "evaluate_retrieval")
        => \A entry \in { evaluation.returned }
                          \cup { evaluation.returned.per_query[i] :
                                   i \in 1..Len(evaluation.returned.per_query) } :
              \A value \in MetricsOf(entry) : RatioLeq(Zero, value) /\ RatioLeq(value, One)

\* value * n = the sum of the values
IsMeanOf(value, values) ==
    Ratio(value.num * Len(values), value.den) = RatioSum(values)

\* The entries of a query list whose query is not blank.
NotBlank(queries) == SelectSeq(queries, LAMBDA entry : \E i \in 1..Len(entry.query) :
                                                          ~IsSpace(entry.query[i]))

\* C19: Session.evaluate_retrieval returns all four metrics 0 and no
\* per-query entry for the empty query list; otherwise it reports one entry
\* per query that is not blank, in order, and each aggregate is the mean of
\* that metric over these entries, 0 when there is none.
C19_AggregateIsMean ==
    (evaluation.by = "evaluate_retrieval")
        => LET result == evaluation.returned
               each   == result.per_query
           IN  /\ Len(each) = Len(NotBlank(evaluation.queries))
               /\ \A i \in 1..Len(each) :
                     each[i].query = Strip(NotBlank(evaluation.queries)[i].query)
               /\ IF Len(each) = 0
                  THEN MetricsOf(result) = { Zero }
                  ELSE /\ IsMeanOf(result.precision_at_k,
                                   [ i \in 1..Len(each) |-> each[i].precision_at_k ])
                       /\ IsMeanOf(result.recall_at_k,
                                   [ i \in 1..Len(each) |-> each[i].recall_at_k ])
                       /\ IsMeanOf(result.mrr, [ i \in 1..Len(each) |-> each[i].mrr ])
                       /\ IsMeanOf(result.ndcg_at_k,
                                   [ i \in 1..Len(each) |-> each[i].ndcg_at_k ])

\* A blank query and " pay" with top_k 1 were evaluated over the indexed
\* notes: the blank one is skipped, and the aggregates are those of the one
\* entry left, with recall 1/2.
C19_Witness ==
    /\ evaluation.by = "evaluate_retrieval"
    /\ Len(evaluation.queries) = 2
    /\ Len(Strip(evaluation.queries[1].query)) = 0
    /\ Len(evaluation.returned.per_query) = 1
    /\ evaluation.returned.per_query[1].query = << "p", "a", "y" >>
    /\ evaluation.returned.recall_at_k = Ratio(1, 2)
    /\ evaluation.returned.precision_at_k = One

\* C21: the rebuild is idempotent: a rebuild that follows a rebuild, with no
\* change of the session in between, leaves the index entries (text, metadata
\* and order) and state["index_size"] as the first one left them.
C21_RebuildIdempotent ==
    [][(outcome = Returned("_rebuild_index", None) /\ Session_rebuild_index)
          => (index' = index /\ state'.index_size = state.index_size)]_vars

\* A rebuild has run on a session with both documents attached, under the
\* semantic chunker and the hierarchical index: three entries.
C21_Witness ==
    /\ outcome = Returned("_rebuild_index", None)
    /\ Len(attachments) = 2
    /\ chunking_strategy = "semantic"
    /\ indexing_strategy = "llama_index"
    /\ Len(IndexEntries(index)) = 3
    /\ state.index_size = 3

\* What a session is to its user: its attachments with their chunk caches,
\* its strategies, its state map and the entries of its index.
SessionView(o) ==
    [ attachments       |-> sessions[o].attachments,
      chunking_strategy |-> sessions[o].chunking_strategy,
      indexing_strategy |-> sessions[o].indexing_strategy,
      state             |-> sessions[o].state,
      entries           |-> objects[sessions[o]._index] ]

\* C22: no state is shared across sessions: a request addressed to one
\* session (add or remove attachment, strategy change, search, evaluate)
\* leaves the attachments, strategies, chunk caches, state map and index
\* entries of every other session as they were.
C22_SessionsShareNothing ==
    [][\A o \in DOMAIN sessions \cap DOMAIN sessions' :
          o # target' => SessionView(o)' = SessionView(o)]_vars

\* Two sessions under the same indexing strategy, each with its own document
\* indexed, the second one addressed last: the first still holds its own.
C22_Witness ==
    /\ DOMAIN sessions = { 1, 2 }
    /\ target = 2
    /\ sessions[1].indexing_strategy = "faiss"
    /\ sessions[2].indexing_strategy = "faiss"
    /\ sessions[1]._index # sessions[2]._index
    /\ AttachedTo(sessions[1]) = { "a2" }
    /\ AttachedTo(sessions[2]) = { "a1" }
    /\ IndexEntries(objects[sessions[1]._index])
           = ChunksOfAttached(sessions[1].attachments, "fixed")
    /\ outcome = Returned("add_attachment", "a1")

\* The entries of a flat index (none, faiss), each with the chunk and the
\* metadata it was added with, in the order they were added.
Stored(idx) == IF idx.name = "none" THEN idx._documents ELSE idx._vectors

\* The section context a metadata dict was built from.
SectionOf(meta) ==
    [ heading    |-> meta.section_heading,
      title      |-> meta.section_title,
      identifier |-> IF "section_identifier" \in DOMAIN meta
                     THEN meta.section_identifier ELSE NoIdentifier,
      path       |-> meta.section_path,
      rank       |-> meta.section_rank,
      level      |-> meta.section_level ]

\* Entry i of the entries is the first chunk of its document.
FirstOfDocument(entries, i) ==
    i = 1 \/ entries[i - 1].meta.document_id # entries[i].meta.document_id

\* C23: during a rebuild each chunk's section context is the heading
\* detected in the chunk if there is one, otherwise the context of the
\* previous chunk of the same document, otherwise the default context
\* "General" (path ["General"], level 1); it is never inherited from a chunk
\* of another document.
C23_ContextDetectedInheritedOrDefault ==
    index.name \in { "none", "faiss" } =>
        \A i \in 1..Len(Stored(index)) :
            LET entry   == Stored(index)[i]
                heading == detect_section_heading(entry.chunk)
            IN  IF heading.matched
                THEN /\ SectionOf(entry.meta).heading = heading.heading
                     /\ SectionOf(entry.meta).title = heading.title
                     /\ SectionOf(entry.meta).identifier = heading.identifier
                     /\ SectionOf(entry.meta).path = heading.path
                ELSE IF ~FirstOfDocument(Stored(index), i)
                THEN SectionOf(entry.meta) = SectionOf(Stored(index)[i - 1].meta)
                ELSE /\ SectionOf(entry.meta).heading = General
                     /\ SectionOf(entry.meta).path = << General >>
                     /\ SectionOf(entry.meta).level = 1

\* The plan and then the notes are indexed under the semantic chunker: the
\* plan's second chunk has no heading and carries the context of the first,
\* and the chunk of the notes, which follows it, has the default context.
C23_Witness ==
    /\ index.name = "faiss"
    /\ chunking_strategy = "semantic"
    /\ Len(Stored(index)) = 3
    /\ Stored(index)[1].meta.chunk_id = << "a3", 0 >>
    /\ Stored(index)[2].meta.chunk_id = << "a3", 1 >>
    /\ Stored(index)[3].meta.chunk_id = << "a1", 0 >>
    /\ detect_section_heading(Stored(index)[1].chunk).matched
    /\ ~detect_section_heading(Stored(index)[2].chunk).matched
    /\ ~detect_section_heading(Stored(index)[3].chunk).matched
    /\ SectionOf(Stored(index)[2].meta) = SectionOf(Stored(index)[1].meta)
    /\ SectionOf(Stored(index)[2].meta).path # << General >>
    /\ SectionOf(Stored(index)[3].meta).path = << General >>

\* The hit's metadata names the chunk the hit holds: chunk chunk_index of the
\* attached document document_id under the active chunking strategy, with
\* the chunk_id made of the two.
OwnMetadata(hit) ==
    \E a \in 1..Len(attachments) :
        /\ attachments[a].attachment_id = hit.metadata.document_id
        /\ hit.metadata.chunk_id = << hit.metadata.document_id, hit.metadata.chunk_index >>
        /\ hit.metadata.chunk_index + 1 \in
               1..Len(get_chunks(attachments[a], chunking_strategy))
        /\ get_chunks(attachments[a], chunking_strategy)[hit.metadata.chunk_index + 1]
               = hit.chunk

\* C24: under every indexing strategy chunk i is stored with metadata i, and
\* a hit of a search carries the metadata of the chunk it holds (document_id,
\* chunk_index, chunk_id), never that of another chunk, also when several
\* chunks share one section path.
C24_HitsCarryOwnMetadata ==
    outcome.op = "search" =>
        \A i \in 1..Len(outcome.returned) : OwnMetadata(outcome.returned[i])

\* The segments of the first pass of SemanticChunker.chunk, before the merge.
SegmentsOf(txt, minsize) ==
    FlushPass(SemanticPass(MapSeq(SplitLines(txt), Strip), 1, minsize, << >>, << >>))

\* How many of segments[p..] a chunk of that length is joined from.
GroupSize(segments, p, length) ==
    CHOOSE n \in 1..(Len(segments) - p + 1) :
        Len(Join(SubSeq(segments, p, p + n - 1), NL)) = length

\* For each chunk of the output, the number of segments it is joined from.
RECURSIVE MergedCounts(_, _, _)
MergedCounts(segments, chunks, p) ==
    IF Len(chunks) = 0 THEN << >>
    ELSE << GroupSize(segments, p, Len(chunks[1])) >>
             \o MergedCounts(segments, Tail(chunks),
                             p + GroupSize(segments, p, Len(chunks[1])))

\* C25: in the merge pass of SemanticChunker a segment is appended to the
\* chunk before it only while the merged chunk, the joining newline counted,
\* stays below min_chunk_size: every output chunk joined from two or more
\* segments is strictly shorter than min_chunk_size.
C25_MergedChunksBelowMin ==
    (outcome.op = "chunk" /\ Len(SegmentsOf(input_text, chunker.min_chunk_size)) > 0) =>
        \A j \in 1..Len(outcome.returned) :
            MergedCounts(SegmentsOf(input_text, chunker.min_chunk_size),
                         outcome.returned, 1)[j] >= 2
                => Len(outcome.returned[j]) < chunker.min_chunk_size

\* The metadata dicts an index holds: one per chunk in the flat indexes, one
\* per section in the hierarchical one.
StoredMetadata(idx) ==
    IF idx.name = "llama_index"
    THEN UNION { { idx._documents[d].sections[j].metadata :
                     j \in 1..Len(idx._documents[d].sections) } :
                 d \in 1..Len(idx._documents) }
    ELSE { Stored(idx)[i].meta : i \in 1..Len(Stored(idx)) }

\* C26: every index entry the coordinator builds has a section_path that is
\* not empty, section_rank equal to the path joined by " > " and
\* section_level equal to the length of the path, whether its context was
\* detected, inherited or the default.
C26_RankAndLevelFollowPath ==
    \A meta \in StoredMetadata(index) :
        /\ Len(meta.section_path) > 0
        /\ meta.section_rank = Join(meta.section_path, RankSep)
        /\ meta.section_level = Len(meta.section_path)

\* The notes and then the plan are indexed under the semantic chunker, with
\* the default context (level 1), a detected one (path ["1", "Plan"], rank
\* "1 > Plan", level 2) and the same one inherited.
C26_Witness ==
    /\ index.name = "none"
    /\ Len(Stored(index)) = 3
    /\ Stored(index)[1].meta.section_rank = General
    /\ Stored(index)[1].meta.section_level = 1
    /\ detect_section_heading(Stored(index)[2].chunk).matched
    /\ Stored(index)[2].meta.section_path = << << "1" >>, << "P", "l", "a", "n" >> >>
    /\ Stored(index)[2].meta.section_rank = << "1", " ", ">", " ", "P", "l", "a", "n" >>
    /\ Stored(index)[2].meta.section_level = 2
    /\ ~detect_section_heading(Stored(index)[3].chunk).matched
    /\ Stored(index)[3].meta.section_level = 2

C28_StateMirrorsSession ==
    /\ state.chunking_strategy = chunking_strategy
    /\ state.indexing_strategy = indexing_strategy
    /\ state.index_size = Len(IndexEntries(index))
    /\ Len(state.attachments) = Len(attachments)
    /\ \A i \in 1..Len(attachments) :
           /\ state.attachments[i].attachment_id = attachments[i].attachment_id
           /\ state.attachments[i].filename = attachments[i].filename

\* C29: FixedSizeChunker.chunk terminates on every text for every integer
\* chunk_size and overlap, overlap >= chunk_size included, because each
\* pass of the loop moves the start of the window forward by at least one
\* character.
C29_ChunkTerminates ==
    /\ [][(Chunk_iterate /\ scan'.pc = "loop") => scan'.start >= scan.start + 1]_vars
    /\ (scan.pc = "loop") ~> (scan.pc = "done")

\* A call with the overlap above the chunk size has returned, after four
\* passes of the loop, the windows the function is defined to return.
C29_Witness ==
    /\ scan.pc = "done"
    /\ chunker.chunk_size = 2
    /\ chunker.overlap = 3
    /\ Len(scan.cleaned) = 5
    /\ Len(scan.chunks) = 4
    /\ scan.chunks = FixedSizeChunker(input_text, chunker.chunk_size, chunker.overlap)

\* C30: SemanticChunker loses and reorders nothing: for every text and every
\* min_chunk_size its output chunks joined by a newline are the non-blank
\* lines of the text, stripped and joined by a newline, and no output chunk
\* is empty.
C30_SemanticKeepsEveryLine ==
    outcome.op = "chunk" =>
        /\ Join(outcome.returned, NL) = Join(StrippedLines(input_text), NL)
        /\ \A j \in 1..Len(outcome.returned) : Len(outcome.returned[j]) > 0

\* "a", a blank line and " b" under min_chunk_size 1: the chunks "a" and
\* "b", without the blank line and the leading space.
C30_Witness ==
    /\ outcome.op = "chunk"
    /\ chunker.min_chunk_size = 1
    /\ input_text = << "a", "\n", "\n", " ", "b" >>
    /\ outcome.returned = << << "a" >>, << "b" >> >>
====
